---------------------------- MODULE Spec2Model ----------------------------
(***************************************************************************)
(* Collective-instance scheduling of lib/pacemaker/pcmk_sched_instances.c: *)
(* assignment of clone instances / bundle containers to nodes.             *)
(***************************************************************************)
EXTENDS Integers, Sequences, FiniteSets, TLC

(* ------------------------------ bounds -------------------------------- *)
\* Number of instances in the collective's instance list
MaxInst == 2
\* Largest max_per_node argument tried
MaxPerNode == 2
\* How many inputs of one configuration may differ from the plain one
\* (all nodes online and allowed with score 0 and count 0, every instance
\* managed, healthy, allowed everywhere with score 0, no colocations)
MaxUnusual == 1
\* How many times in a row pcmk__assign_instances is called
MaxCalls == 2

(* ----------------------------- constants ------------------------------ *)
INFINITY == 1000000
NULL == "NULL"
Nodes == {"n1", "n2"}
Instances == 1..MaxInst
NodeStates == {"online", "standby", "offline"}

B2N(b) == IF b THEN 1 ELSE 0

\* GHashTable keyed by node id: a function whose domain is the ids present
NodeTables(V) == UNION {[S -> V] : S \in SUBSET Nodes}

VARIABLES
    node_status,      \* node id -> state of node->details
    parent_nodes,     \* collective->allowed_nodes: id -> [weight, count]
    rsc_cons,         \* collective->rsc_cons ("this with" colocations)
    rsc_cons_lhs,     \* collective->rsc_cons_lhs ("with this" colocations)
    inst,             \* the instance list: index -> pe_resource_t fields
    placement,        \* location constraints created by resource_location()
    max_total,        \* argument of pcmk__assign_instances
    max_per_node,     \* argument of pcmk__assign_instances
    pc,               \* position in pcmk__assign_instances
    iter,             \* list iterator of the running pass
    assigned,         \* local counter of pcmk__assign_instances
    available_nodes,  \* local of pcmk__assign_instances
    calls,            \* number of calls of pcmk__assign_instances so far
    entry,            \* per instance, its assignment fields at call entry
    last,             \* what the last step did, and to which instance
    assert_failed,    \* CRM_LOG_ASSERT of assign_instance was violated
    invoked,          \* assign_instance calls of this call, by pass
    variant,          \* variant of the collective's instances
    a_inst,           \* the instance list as seen by the action functions
    state,            \* local "state" of pcmk__create_instance_actions
    coll,             \* the collective's own actions, by key
    notify,           \* the start_notify / stop_notify out-parameters
    orderings,        \* orderings installed by order_actions()
    apc,              \* position in pcmk__create_instance_actions
    aiter,            \* its list iterator
    summary,          \* last call of pcmk__collective_action_flags
    i_first,          \* "first" action of the ordering being updated
    i_then,           \* "then" action of the ordering being updated
    i_rsc,            \* the resources of the two actions, by id
    i_node,           \* argument node of the ordering update
    i_type,           \* argument type: the ordering's pe_ordering flags
    i_inner,          \* what the instances' update_ordered_actions reports
    ipc,              \* position in pcmk__instance_update_ordered_actions
    i_iter,           \* list iterator over the "then" instances
    i_current,        \* local "current" of update_interleaved_actions
    i_changed,        \* local "changed": the pcmk__updated flags so far
    i_orderings,      \* orderings between instance actions (order_actions)
    i_before,         \* orderings that existed before the update
    i_calls,          \* calls made to the external update functions
    i_last            \* what the last loop iteration did

\* State of the assignment functions
svars == <<node_status, parent_nodes, rsc_cons, rsc_cons_lhs, inst, placement,
           max_total, max_per_node, pc, iter, assigned, available_nodes,
           calls, entry, last, assert_failed, invoked>>

\* State of the action functions
avars == <<variant, a_inst, state, coll, notify, orderings, apc, aiter,
           summary>>

\* State of the ordering update functions
ivars == <<i_first, i_then, i_rsc, i_node, i_type, i_inner, ipc, i_iter,
           i_current, i_changed, i_orderings, i_before, i_calls, i_last>>

vars == <<svars, avars, ivars>>

(* ------------------------- external helpers --------------------------- *)
\* pcmk__node_available(node, consider_score=include_standby, FALSE)
node_available(n, include_standby) ==
    \/ node_status[n] = "online"
    \/ include_standby /\ node_status[n] = "standby"

\* pcmk__top_allowed_node(instance, node): the parent's view, NULL if absent
has_top_allowed_node(n) == n \in DOMAIN parent_nodes

\* instance->fns->location(instance, NULL, FALSE)
location(r) == r.allocated_to

\* pe__current_node(instance)
current_node(r) == r.running_on

\* pcmk__add_scores(): -INFINITY wins over everything
add_scores(a, b) ==
    IF a <= -INFINITY \/ b <= -INFINITY THEN -INFINITY
    ELSE IF a >= INFINITY \/ b >= INFINITY THEN INFINITY
    ELSE IF a + b >= INFINITY THEN INFINITY
    ELSE IF a + b <= -INFINITY THEN -INFINITY
    ELSE a + b

\* pcmk__colocation_has_influence(cons, child)
colocation_has_influence(cons, i) == cons.influence

(* --------------------------- eligibility ------------------------------ *)
\* can_run_instance without its count check (lines 64-70)
can_run_instance_no_cap(i, n) ==
    /\ ~inst[i].orphan
    /\ node_available(n, FALSE)
    /\ has_top_allowed_node(n)
    /\ parent_nodes[n].weight >= 0

\* can_run_instance without its parent score check (lines 57-62)
can_run_instance_no_score(i, n) ==
    /\ ~inst[i].orphan
    /\ node_available(n, FALSE)
    /\ has_top_allowed_node(n)
    /\ parent_nodes[n].count < max_per_node

\* can_run_instance without its orphan check (lines 37-41)
can_run_instance_no_orphan(i, n) ==
    /\ node_available(n, FALSE)
    /\ has_top_allowed_node(n)
    /\ parent_nodes[n].weight >= 0
    /\ parent_nodes[n].count < max_per_node

\* can_run_instance without its parent view check (lines 50-55)
can_run_instance_no_view(i, n) ==
    /\ ~inst[i].orphan
    /\ node_available(n, FALSE)
    /\ has_top_allowed_node(n) =>
          /\ parent_nodes[n].weight >= 0
          /\ parent_nodes[n].count < max_per_node

\* can_run_instance() that lets a standby node run resources
can_run_instance_standby(i, n) ==
    /\ ~inst[i].orphan
    /\ node_available(n, TRUE)
    /\ has_top_allowed_node(n)
    /\ parent_nodes[n].weight >= 0
    /\ parent_nodes[n].count < max_per_node

\* can_run_instance(instance, node, max_per_node)
can_run_instance(i, n) ==
    /\ ~inst[i].orphan
    /\ node_available(n, FALSE)
    /\ has_top_allowed_node(n)
    /\ parent_nodes[n].weight >= 0
    /\ parent_nodes[n].count < max_per_node

\* A ban_unavailable_allowed_nodes() that bans nothing
ban_unavailable_allowed_nodes_none(i) == inst[i].allowed_nodes

\* ban_unavailable_allowed_nodes(instance, max_per_node): the new node table
ban_unavailable_allowed_nodes(i) ==
    [n \in DOMAIN inst[i].allowed_nodes |->
        IF can_run_instance(i, n) THEN inst[i].allowed_nodes[n]
        \* common_update_score(instance, id, -INFINITY)
        ELSE add_scores(inst[i].allowed_nodes[n], -INFINITY)]

(* ------------------------ colocation propagator ----------------------- *)
\* append_parent_colocation(parent, child, all): the child's two lists
append_this_with(i, all) ==
    LET Keep(c) == all \/ c.score < 0 \/ c.score = INFINITY
    IN  inst[i].this_with \o SelectSeq(rsc_cons, Keep)

\* The second loop of append_parent_colocation with the test of the first
append_with_this_mandatory(i, all) ==
    LET Keep(c) == /\ colocation_has_influence(c, i)
                   /\ (all \/ c.score < 0 \/ c.score = INFINITY)
    IN  inst[i].with_this \o SelectSeq(rsc_cons_lhs, Keep)

append_with_this(i, all) ==
    LET Keep(c) == colocation_has_influence(c, i) /\ (all \/ c.score < 0)
    IN  inst[i].with_this \o SelectSeq(rsc_cons_lhs, Keep)

(* --------------------------- node counts ------------------------------ *)
\* A reset that leaves the counts as they were before the call
reset_allowed_node_counts_kept == parent_nodes

\* reset_allowed_node_counts(rsc): the table with every count zeroed
reset_allowed_node_counts ==
    [n \in DOMAIN parent_nodes |-> [parent_nodes[n] EXCEPT !.count = 0]]

\* return value of reset_allowed_node_counts(rsc)
count_available_nodes ==
    Cardinality({n \in DOMAIN parent_nodes : node_available(n, FALSE)})

\* all_coloc = (max_total < available_nodes)
all_coloc == max_total < available_nodes

\* optimal_per_node without "if (optimal_per_node < 1)" (lines 329-331)
optimal_per_node_unclamped ==
    IF available_nodes > 0 THEN max_total \div available_nodes ELSE 0

\* optimal_per_node as computed at the top of pcmk__assign_instances
optimal_per_node ==
    LET q == IF available_nodes > 0 THEN max_total \div available_nodes ELSE 0
    IN  IF q < 1 THEN 1 ELSE q

\* A preferred_node() that gives up a current node in standby
preferred_node_online_only(i) ==
    LET node == current_node(inst[i])
    IN  IF node = NULL \/ ~inst[i].provisional \/ inst[i].failed THEN NULL
        ELSE IF ~node_available(node, FALSE) THEN NULL
        ELSE IF has_top_allowed_node(node)
                /\ parent_nodes[node].count >= optimal_per_node THEN NULL
        ELSE node

\* A preferred_node() that never finds a node worth keeping
preferred_node_never(i) == NULL

\* preferred_node(rsc, instance, optimal_per_node)
preferred_node(i) ==
    LET r == inst[i]
        node == current_node(r)
    IN  IF r.running_on = NULL \/ ~r.provisional \/ r.failed THEN NULL
        ELSE IF ~node_available(node, TRUE) THEN NULL
        ELSE IF has_top_allowed_node(node)
                /\ parent_nodes[node].count >= optimal_per_node THEN NULL
        ELSE node

(* ------------------------- assign primitive --------------------------- *)
\* Nodes of a table the instance is not banned from
candidates(tbl) == {n \in DOMAIN tbl : tbl[n] >= 0}

\* The candidates with the highest score
best_nodes(tbl) ==
    {n \in candidates(tbl) : \A m \in candidates(tbl) : tbl[m] <= tbl[n]}

\* instance->cmds->assign(instance, prefer): the nodes it may return.  It
\* never returns a node the instance is banned from.  Without colocations
\* it returns the preferred node if that is among the best-scored ones, any
\* best-scored node otherwise, and NULL only if there is no candidate.  The
\* instance's colocations change the scores inside the primitive, so with
\* colocations every candidate, and NULL, is possible.
assign_choices(r, tbl, prefer) ==
    IF r.this_with # <<>> \/ r.with_this # <<>>
    THEN candidates(tbl) \cup {NULL}
    ELSE IF candidates(tbl) = {} THEN {NULL}
    ELSE IF prefer \in best_nodes(tbl) THEN {prefer}
    ELSE best_nodes(tbl)

\* The node table the primitive leaves behind.  It applies the instance's
\* colocations to the scores of allowed_nodes: without colocations the
\* table stays as it was, with colocations every node but the chosen one
\* ends up banned.  (Nothing reads the table of an assigned instance again,
\* so the one changed table stands for every change the primitive makes.)
primitive_nodes(r, tbl, chosen) ==
    IF r.this_with = <<>> /\ r.with_this = <<>> THEN tbl
    ELSE [n \in DOMAIN tbl |->
            IF n = chosen THEN tbl[n] ELSE add_scores(tbl[n], -INFINITY)]

\* The instance after the primitive assigned it to chosen (maybe NULL)
assigned_to(r, tbl, chosen) ==
    [r EXCEPT !.allowed_nodes = tbl, !.provisional = FALSE,
              !.allocated_to = chosen]

\* The revert without putting the backup table back (lines 175-176)
revert_assignment_keeps_nodes(r, backup) ==
    [r EXCEPT !.provisional = TRUE, !.allocated_to = NULL]

\* The revert without pcmk__unassign_resource (line 177)
revert_assignment_no_unassign(r, backup) == [r EXCEPT !.allowed_nodes = backup]

\* Lines 175-178: restore the backup table, pcmk__unassign_resource(instance)
revert_assignment(r, backup) ==
    [r EXCEPT !.allowed_nodes = backup, !.provisional = TRUE,
              !.allocated_to = NULL]

\* "chosen != NULL && chosen->details != prefer->details"
must_revert(chosen, prefer) == chosen # NULL /\ chosen # prefer

\* assign_instance without "allowed->count++" (line 195)
count_assigned_never(chosen) == parent_nodes

\* allowed->count++ on the parent's view of the chosen node
count_assigned(chosen) ==
    IF chosen # NULL /\ has_top_allowed_node(chosen)
    THEN [parent_nodes EXCEPT ![chosen].count = @ + 1]
    ELSE parent_nodes

\* CRM_LOG_ASSERT(!pcmk_is_set(instance->flags, pe_rsc_managed))
assert_violated(r, chosen) ==
    chosen # NULL /\ ~has_top_allowed_node(chosen) /\ r.managed

\* An assign_instance that does not look at pe_rsc_allocating
assignment_loop_ignored(r) == FALSE

\* pcmk_is_set(instance->flags, pe_rsc_allocating), line 139
assignment_loop(r) == r.allocating

\* assign_instance(instance, prefer, all_coloc, max_per_node) applied to the
\* instance r0 (the list's instance i with its colocations appended);
\* result is the function's return value
assign_instance(i, r0, prefer, result) ==
  /\ invoked' = [invoked EXCEPT ![pc][i] = @ + 1]
  /\
    IF ~r0.provisional
    THEN /\ result = (location(r0) # NULL)
         /\ inst' = [inst EXCEPT ![i] = r0]
         /\ last' = [op |-> "already", inst |-> i]
         /\ UNCHANGED <<parent_nodes, assert_failed>>
    ELSE IF assignment_loop(r0)
    THEN /\ result = FALSE
         /\ inst' = [inst EXCEPT ![i] = r0]
         /\ last' = [op |-> "loop", inst |-> i]
         /\ UNCHANGED <<parent_nodes, assert_failed>>
    ELSE IF prefer # NULL /\ (\/ prefer \notin DOMAIN r0.allowed_nodes
                              \/ r0.allowed_nodes[prefer] < 0)
    THEN /\ result = FALSE
         /\ inst' = [inst EXCEPT ![i] = r0]
         /\ last' = [op |-> "unavailable", inst |-> i]
         /\ UNCHANGED <<parent_nodes, assert_failed>>
    ELSE LET banned == ban_unavailable_allowed_nodes(i)
         IN  \E chosen \in assign_choices(r0, banned, prefer) :
             LET tbl == primitive_nodes(r0, banned, chosen)
             IN
               IF prefer # NULL /\ must_revert(chosen, prefer)
               THEN /\ result = FALSE
                    /\ inst' = [inst EXCEPT
                                  ![i] = revert_assignment(
                                            assigned_to(r0, tbl, chosen),
                                            banned)]
                    /\ last' = [op |-> "reverted", inst |-> i]
                    /\ UNCHANGED <<parent_nodes, assert_failed>>
               ELSE /\ result = (chosen # NULL)
                    /\ inst' = [inst EXCEPT
                                  ![i] = assigned_to(r0, tbl, chosen)]
                    /\ parent_nodes' = count_assigned(chosen)
                    /\ assert_failed' =
                          (assert_failed \/ assert_violated(r0, chosen))
                    /\ last' = [op |-> IF chosen # NULL THEN "assigned"
                                       ELSE "nowhere", inst |-> i]

(* ------------------------------ inputs -------------------------------- *)
\* assign_instance has not been called in either loop
NotInvoked ==
    [pass1 |-> [i \in Instances |-> 0], pass2 |-> [i \in Instances |-> 0]]

\* The ordering update functions are not running
NoInterleave ==
    /\ i_first = [rsc |-> NULL, task |-> "none", uuid |-> <<>>]
    /\ i_then = [rsc |-> NULL, task |-> "none", uuid |-> <<>>]
    /\ i_rsc = <<>>
    /\ i_node = NULL
    /\ i_type = {}
    /\ i_inner = {}
    /\ ipc = "off"
    /\ i_iter = 1
    /\ i_current = FALSE
    /\ i_changed = {}
    /\ i_orderings = {}
    /\ i_before = {}
    /\ i_calls = <<>>
    /\ i_last = [op |-> "none"]

\* The action functions are not running
NoActions ==
    /\ variant = "native"
    /\ a_inst = <<>>
    /\ state = {}
    /\ coll = <<>>
    /\ notify = [start |-> "absent", stop |-> "absent", enabled |-> FALSE]
    /\ orderings = {}
    /\ apc = "off"
    /\ aiter = 1
    /\ summary = [action |-> "none", node |-> NULL, flags |-> {}]

\* pcmk__colocation_t: only its score and its influence are read here
ThisWithColocations == [score : {-1, 1, INFINITY}, influence : {TRUE}]
WithThisColocations == [score : {-1, 1, INFINITY}, influence : BOOLEAN]

InstanceRecords ==
    [orphan : BOOLEAN, managed : BOOLEAN, failed : BOOLEAN,
     allocating : BOOLEAN, provisional : {TRUE},
     running_on : Nodes \cup {NULL}, allocated_to : {NULL},
     allowed_nodes : NodeTables({-INFINITY, 0, 1}),
     this_with : {<<>>}, with_this : {<<>>}]

\* Number of fields of an instance that differ from the plain instance
Unusual(r) ==
    B2N(r.orphan) + B2N(~r.managed) + B2N(r.failed) + B2N(r.allocating)
    + Cardinality({n \in Nodes : \/ n \notin DOMAIN r.allowed_nodes
                                 \/ r.allowed_nodes[n] # 0})

\* The instances by their number of unusual fields
InstancesByUnusual ==
    [c \in 0..MaxUnusual |-> {r \in InstanceRecords : Unusual(r) = c}]

\* Instance lists of length k with at most d unusual fields in total
RECURSIVE InstanceLists(_, _)
InstanceLists(k, d) ==
    IF k = 0 THEN {<<>>}
    ELSE UNION {{Append(s, r) : s \in InstanceLists(k - 1, d - c),
                                r \in InstancesByUnusual[c]} : c \in 0..d}

\* Number of cluster-level inputs that differ from the plain cluster
UnusualCluster(st, pn, tw, wt) ==
    Cardinality({n \in Nodes : st[n] # "online"})
    + Cardinality({n \in Nodes : n \notin DOMAIN pn \/ pn[n].weight # 0})
    + Cardinality({n \in DOMAIN pn : pn[n].count # 0})
    + Len(tw) + Len(wt)

ColocationLists(C) == {<<>>} \cup {<<c>> : c \in C}

\* The node ids are interchangeable, so only the configurations in which the
\* first running instance of the list runs on node n1 are enumerated
FirstRunsOnFirstNode(l) ==
    \A i \in DOMAIN l :
        (l[i].running_on # NULL /\ \A j \in 1..(i - 1) : l[j].running_on = NULL)
            => l[i].running_on = "n1"

Init ==
    /\ node_status \in [Nodes -> NodeStates]
    /\ parent_nodes \in NodeTables([weight : {-INFINITY, 0}, count : 0..1])
    /\ rsc_cons \in ColocationLists(ThisWithColocations)
    /\ rsc_cons_lhs \in ColocationLists(WithThisColocations)
    /\ UnusualCluster(node_status, parent_nodes, rsc_cons, rsc_cons_lhs)
          <= MaxUnusual
    /\ inst \in InstanceLists(MaxInst,
                   MaxUnusual - UnusualCluster(node_status, parent_nodes,
                                               rsc_cons, rsc_cons_lhs))
    /\ FirstRunsOnFirstNode(inst)
    /\ placement = {}
    /\ max_total \in 0..MaxInst
    /\ max_per_node \in 1..MaxPerNode
    /\ pc = "idle"
    /\ iter = 1
    /\ assigned = 0
    /\ available_nodes = 0
    /\ calls = 0
    /\ entry = [i \in Instances |->
                   [provisional |-> TRUE, allocated_to |-> NULL,
                    allowed_nodes |-> inst[i].allowed_nodes]]
    /\ last = [op |-> "none", inst |-> 0]
    /\ assert_failed = FALSE
    /\ invoked = NotInvoked
    /\ NoActions
    /\ NoInterleave

(* ------------------------------ actions ------------------------------- *)
\* pcmk__assign_instances, lines 313-338: reset counts, compute locals
Enter ==
    /\ pc \in {"idle", "done"}
    /\ calls < MaxCalls
    /\ parent_nodes' = reset_allowed_node_counts
    /\ available_nodes' = count_available_nodes
    /\ assigned' = 0
    /\ iter' = 1
    /\ pc' = "pass1"
    /\ calls' = calls + 1
    /\ entry' = [i \in Instances |->
                    [provisional |-> inst[i].provisional,
                     allocated_to |-> inst[i].allocated_to,
                     allowed_nodes |-> inst[i].allowed_nodes]]
    /\ last' = [op |-> "enter", inst |-> 0]
    /\ invoked' = NotInvoked
    /\ UNCHANGED <<avars, ivars>>
    /\ UNCHANGED <<node_status, rsc_cons, rsc_cons_lhs, inst, placement,
                   max_total, max_per_node, assert_failed>>

\* A list iterator that does not advance
list_next_stuck == iter

\* "iter = iter->next" of the two loops (lines 342 and 359)
list_next == iter + 1

\* The instance with the parent's colocations appended (line 345)
with_parent_colocations(i) ==
    [inst[i] EXCEPT !.this_with = append_this_with(i, all_coloc),
                    !.with_this = append_with_this(i, all_coloc)]

\* One iteration of the first loop (lines 341-354)
Pass1Step ==
    /\ pc = "pass1"
    /\ iter <= MaxInst
    /\ assigned < max_total
    /\ LET r0 == with_parent_colocations(iter)
           current == preferred_node(iter)
       IN  IF current = NULL
           THEN /\ inst' = [inst EXCEPT ![iter] = r0]
                /\ last' = [op |-> "no_preferred", inst |-> iter]
                /\ UNCHANGED <<parent_nodes, assigned, assert_failed,
                               invoked>>
           ELSE \E result \in BOOLEAN :
                  /\ assign_instance(iter, r0, current, result)
                  /\ assigned' = assigned + B2N(result)
    /\ iter' = list_next
    /\ UNCHANGED <<avars, ivars>>
    /\ UNCHANGED <<node_status, rsc_cons, rsc_cons_lhs, placement, max_total,
                   max_per_node, pc, available_nodes, calls, entry>>

\* The first loop ends (line 341) and the second starts (line 359)
Pass1End ==
    /\ pc = "pass1"
    /\ ~(iter <= MaxInst /\ assigned < max_total)
    /\ pc' = "pass2"
    /\ iter' = 1
    /\ last' = [op |-> "pass1_end", inst |-> 0]
    /\ UNCHANGED <<avars, ivars>>
    /\ UNCHANGED <<node_status, parent_nodes, rsc_cons, rsc_cons_lhs, inst,
                   placement, max_total, max_per_node, assigned,
                   available_nodes, calls, entry, assert_failed, invoked>>

\* resource_location(instance, NULL, -INFINITY, "collective_limit_reached")
resource_location(r) ==
    [r EXCEPT !.allowed_nodes =
        [n \in DOMAIN r.allowed_nodes |->
            add_scores(r.allowed_nodes[n], -INFINITY)]]

\* A second loop that never finds the limit reached
limit_reached_never == FALSE

\* The limit test off by one
limit_reached_late == assigned > max_total

\* "assigned >= max_total" of the second loop (line 379)
limit_reached == assigned >= max_total

\* The second loop without its resource_location() call
limit_ban_skipped(r) == r

\* Lines 384-385: ban an instance over the limit from every node
limit_ban(r) == resource_location(r)

\* One iteration of the second loop (lines 359-390)
Pass2Step ==
    /\ pc = "pass2"
    /\ iter <= MaxInst
    /\ IF ~inst[iter].provisional
       THEN /\ last' = [op |-> "skipped", inst |-> iter]
            /\ UNCHANGED <<inst, parent_nodes, assigned, placement,
                           assert_failed, invoked>>
       ELSE IF limit_reached
       THEN /\ inst' = [inst EXCEPT ![iter] = limit_ban(@)]
            /\ placement' = placement \cup
                  {[id |-> "collective_limit_reached", rsc |-> iter,
                    score |-> -INFINITY]}
            /\ last' = [op |-> "limit", inst |-> iter]
            /\ UNCHANGED <<parent_nodes, assigned, assert_failed, invoked>>
       ELSE \E result \in BOOLEAN :
              /\ assign_instance(iter, inst[iter], NULL, result)
              /\ assigned' = assigned + B2N(result)
              /\ UNCHANGED placement
    /\ iter' = list_next
    /\ UNCHANGED <<avars, ivars>>
    /\ UNCHANGED <<node_status, rsc_cons, rsc_cons_lhs, max_total,
                   max_per_node, pc, available_nodes, calls, entry>>

\* pcmk__assign_instances returns (line 395)
Return ==
    /\ pc = "pass2"
    /\ iter > MaxInst
    /\ pc' = "done"
    /\ last' = [op |-> "return", inst |-> 0]
    /\ UNCHANGED <<avars, ivars>>
    /\ UNCHANGED <<node_status, parent_nodes, rsc_cons, rsc_cons_lhs, inst,
                   placement, max_total, max_per_node, iter, assigned,
                   available_nodes, calls, entry, assert_failed, invoked>>

Next == Enter \/ Pass1Step \/ Pass1End \/ Pass2Step \/ Return

Spec == Init /\ [][Next]_vars

\* The steps of a call that has started.  Nothing in the two loops waits for
\* anything, so a started call keeps taking steps.
Running == Pass1Step \/ Pass1End \/ Pass2Step \/ Return

SpecFair == Spec /\ WF_vars(Running)

\* The same calls on every cluster: any node states and any parent table,
\* for instances that are plain but for their current nodes
InitSetup ==
    /\ node_status \in [Nodes -> NodeStates]
    /\ parent_nodes \in NodeTables([weight : {-INFINITY, 0}, count : 0..1])
    /\ rsc_cons = <<>>
    /\ rsc_cons_lhs = <<>>
    /\ inst \in InstanceLists(MaxInst, 0)
    /\ FirstRunsOnFirstNode(inst)
    /\ placement = {}
    /\ max_total \in 0..MaxInst
    /\ max_per_node \in 1..MaxPerNode
    /\ pc = "idle"
    /\ iter = 1
    /\ assigned = 0
    /\ available_nodes = 0
    /\ calls = 0
    /\ entry = [i \in Instances |->
                   [provisional |-> TRUE, allocated_to |-> NULL,
                    allowed_nodes |-> inst[i].allowed_nodes]]
    /\ last = [op |-> "none", inst |-> 0]
    /\ assert_failed = FALSE
    /\ invoked = NotInvoked
    /\ NoActions
    /\ NoInterleave

SpecSetup == InitSetup /\ [][Next]_vars

(* ---------------------- instance-state summarizer --------------------- *)
\* enum instance_state (lines 397-412)
instance_starting == "starting"
instance_stopping == "stopping"
instance_restarting == "restarting"
instance_active == "active"
instance_all ==
    {instance_starting, instance_stopping, instance_restarting,
     instance_active}

\* action_state() that takes no pseudo stop for a stop
action_state_runnable_only(action) ==
    LET optional == "optional" \in action.flags
    IN  IF action.task = "start"
        THEN IF ~optional /\ "runnable" \in action.flags
             THEN {instance_starting} ELSE {}
        ELSE IF action.task = "stop"
        THEN IF ~optional /\ "runnable" \in action.flags
             THEN {instance_stopping} ELSE {}
        ELSE {}

\* The bits one action adds to the state of its instance (lines 455-485)
action_state(action) ==
    LET optional == "optional" \in action.flags
    IN  IF action.task = "start"
        THEN IF ~optional /\ "runnable" \in action.flags
             THEN {instance_starting} ELSE {}
        ELSE IF action.task = "stop"
        THEN IF ~optional /\ action.flags \cap {"pseudo", "runnable"} # {}
             THEN {instance_stopping} ELSE {}
        ELSE {}

\* The loop over instance->actions (lines 449-486), from position k on
RECURSIVE scan_actions(_, _, _)
scan_actions(actions, k, instance_state) ==
    IF k > Len(actions)
       \/ {instance_starting, instance_stopping} \subseteq instance_state
    THEN instance_state
    ELSE scan_actions(actions, k + 1,
                      instance_state \cup action_state(actions[k]))

\* The state folded as if restarting were derived from the collective's bits
merge_instance_state_collective(st, instance_state) ==
    LET merged == st \cup instance_state
    IN  IF {instance_starting, instance_stopping} \subseteq merged
        THEN merged \cup {instance_restarting} ELSE merged

\* Lines 488-492: restarting is set from this instance's bits only, then
\* "*state |= instance_state"
merge_instance_state(st, instance_state) ==
    st \cup (IF {instance_starting, instance_stopping}
                   \subseteq instance_state
             THEN instance_state \cup {instance_restarting}
             ELSE instance_state)

\* check_instance_state() on a primitive (lines 428-430, 442-492)
check_primitive_state(p, st) ==
    IF instance_all \subseteq st THEN st
    ELSE merge_instance_state(
            st,
            scan_actions(p.actions, 1,
                         IF p.running THEN {instance_active} ELSE {}))

\* The loop over instance->children (lines 434-438), from position k on
RECURSIVE check_children_state(_, _, _)
check_children_state(children, k, st) ==
    IF k > Len(children) \/ instance_all \subseteq st THEN st
    ELSE check_children_state(children, k + 1,
                              check_primitive_state(children[k], st))

\* check_instance_state(instance, &state): the new value of *state
check_instance_state(instance, st) ==
    IF instance_all \subseteq st THEN st
    ELSE IF variant # "native"
    THEN check_children_state(instance.children, 1, st)
    ELSE check_primitive_state(instance, st)

(* ----------------------- collective action flags ---------------------- *)
\* find_first_action(actions, NULL, task, on_node): position, 0 if none
RECURSIVE find_first_action(_, _, _, _)
find_first_action(actions, k, task, on_node) ==
    IF k > Len(actions) THEN 0
    ELSE IF actions[k].task # task
    THEN find_first_action(actions, k + 1, task, on_node)
    ELSE IF on_node = NULL THEN k
    ELSE IF actions[k].node = NULL
    THEN find_first_action(actions, k + 1, task, on_node)
    ELSE IF actions[k].node = on_node THEN k
    ELSE find_first_action(actions, k + 1, task, on_node)

KnownTasks ==
    {"stop", "stopped", "start", "started", "notify", "notified",
     "promote", "promoted", "demote", "demoted", "monitor", "shutdown",
     "fence"}

\* task2text(get_complex_task(instance, name)) for an instance of the
\* collective's variant
get_complex_task(name) ==
    IF name \notin KnownTasks THEN "no_action"
    ELSE IF variant # "native" THEN name
    ELSE IF name = "stopped" THEN "stop"
    ELSE IF name = "started" THEN "start"
    ELSE IF name = "demoted" THEN "demote"
    ELSE IF name = "promoted" THEN "promote"
    ELSE name

\* parse_op_key(uuid, NULL, &action_type, NULL): a key is the resource id,
\* the operation's words and the interval, joined by "_"
parse_op_key(uuid) ==
    IF Len(uuid) >= 3 THEN SubSeq(uuid, 2, Len(uuid) - 1) ELSE <<>>

\* strstr(action_type, "_notify_") + strlen("_notify_"): the words after the
\* first inner "notify", <<>> if there is none
RECURSIVE after_notify(_, _)
after_notify(action_type, k) ==
    IF k >= Len(action_type) THEN <<>>
    ELSE IF k > 1 /\ action_type[k] = "notify"
    THEN SubSeq(action_type, k + 1, Len(action_type))
    ELSE after_notify(action_type, k + 1)

\* orig_action_name(action) (lines 866-886)
orig_action_name(action) ==
    IF action.task \in {"notify", "notified"}
    THEN LET words == after_notify(parse_op_key(action.uuid), 1)
         IN  IF words = <<>> THEN "no_action"
             ELSE IF Len(words) = 1 THEN get_complex_task(words[1])
             ELSE "no_action"
    ELSE get_complex_task(action.task)

\* instance->cmds->action_flags(instance_action, node)
action_flags(instance_action, node) == instance_action.flags

\* The runnable fold with "and" in place of "or"
fold_runnable_all(any_runnable, instance_flags, first) ==
    IF first THEN "runnable" \in instance_flags
    ELSE any_runnable /\ "runnable" \in instance_flags

\* Lines 1196-1199: any runnable instance action makes the fold runnable
fold_runnable(any_runnable, instance_flags, first) ==
    any_runnable \/ "runnable" \in instance_flags

\* A fold in which no instance action makes the collective action mandatory
is_mandatory_never(flags, instance_flags) == FALSE

\* Lines 1187-1188: the summary is still optional, the instance action is not
is_mandatory(flags, instance_flags) ==
    "optional" \in flags /\ "optional" \notin instance_flags

\* The loop of pcmk__collective_action_flags (lines 1162-1200) from instance
\* k on; acc holds the locals flags and any_runnable, whether an instance
\* action was seen, and the flags of the action object
RECURSIVE fold_instances(_, _, _, _)
fold_instances(k, action_name, node, acc) ==
    IF k > Len(a_inst) THEN acc
    ELSE LET instance == a_inst[k]
             instance_node == IF variant = "native" THEN node ELSE NULL
             found == find_first_action(instance.actions, 1, action_name,
                                        instance_node)
         IN  IF found = 0
             THEN fold_instances(k + 1, action_name, node, acc)
             ELSE LET instance_flags ==
                          action_flags(instance.actions[found], node)
                      mandatory == is_mandatory(acc.flags, instance_flags)
                  IN  fold_instances(k + 1, action_name, node,
                        [flags |-> IF mandatory
                                   THEN acc.flags \ {"optional"}
                                   ELSE acc.flags,
                         object |-> IF mandatory
                                    THEN acc.object \ {"optional"}
                                    ELSE acc.object,
                         any_runnable |->
                             fold_runnable(acc.any_runnable, instance_flags,
                                           ~acc.seen),
                         seen |-> TRUE])

\* pcmk__collective_action_flags() without "if (node == NULL)" (line 1208)
collective_action_flags_any_node(action, node) ==
    LET acc == fold_instances(1, orig_action_name(action), node,
                   [flags |-> {"optional", "runnable", "pseudo"},
                    object |-> action.flags,
                    any_runnable |-> FALSE, seen |-> FALSE])
    IN  IF ~acc.any_runnable
        THEN [flags |-> acc.flags \ {"runnable"},
              object |-> acc.object \ {"runnable"}]
        ELSE [flags |-> acc.flags, object |-> acc.object]

\* pcmk__collective_action_flags(action, instances, node): the flags
\* returned and the flags left on the action object
collective_action_flags(action, node) ==
    LET acc == fold_instances(1, orig_action_name(action), node,
                   [flags |-> {"optional", "runnable", "pseudo"},
                    object |-> action.flags,
                    any_runnable |-> FALSE, seen |-> FALSE])
    IN  IF ~acc.any_runnable
        THEN [flags |-> acc.flags \ {"runnable"},
              object |-> IF node = NULL THEN acc.object \ {"runnable"}
                         ELSE acc.object]
        ELSE [flags |-> acc.flags, object |-> acc.object]

(* ------------------------ pseudo-action builder ----------------------- *)
\* pe__new_rsc_pseudo_action(rsc, task, optional, runnable)
new_rsc_pseudo_action(task, optional, runnable) ==
    [task |-> task, uuid |-> <<"rsc", task, "0">>,
     flags |-> {"pseudo"} \cup (IF optional THEN {"optional"} ELSE {})
                          \cup (IF runnable THEN {"runnable"} ELSE {}),
     priority |-> 0]

\* One action of a notify_data_t made by pe__clone_notif_pseudo_ops()
notify_action(task, words, orig) ==
    [task |-> task, uuid |-> <<"rsc">> \o words \o <<orig, "0">>,
     flags |-> {"pseudo", "optional", "runnable"}, priority |-> 0]

\* pe__clone_notif_pseudo_ops(rsc, task, action, complete): the two ends
\* (pre and post_done) of the set it makes
notif_pseudo_ops(set, task, complete) ==
    (set \o "_pre" :> notify_action("notify", <<"pre", "notify">>, task))
    @@ (set \o "_post_done" :>
            notify_action("notified", <<"confirmed-post", "notify">>,
                          complete))

\* instance->cmds->create_actions(instance): the planned actions appear on
\* the instance (and on its children) on the instance's node
created(planned, node) ==
    [k \in DOMAIN planned |->
        [task |-> planned[k].task, flags |-> planned[k].flags,
         node |-> node]]

create_actions(instance) ==
    [instance EXCEPT
        !.actions = created(instance.planned, instance.node),
        !.children = [c \in DOMAIN instance.children |->
                        [instance.children[c] EXCEPT
                            !.actions = created(instance.children[c].planned,
                                                instance.node)]]]

(* --------------------------- action inputs ---------------------------- *)
\* Total number of planned actions, running resources and unusual settings
\* in one configuration of the action functions
MaxFacts == 2

\* A stop is a real action (runnable or not) or a pseudo-action of a
\* resource whose node is being fenced
ActionKinds ==
    [task : {"start"}, flags : SUBSET {"optional", "runnable"}]
    \cup [task : {"stop"}, flags : SUBSET {"optional", "runnable"}]
    \cup [task : {"stop"}, flags : {{"pseudo"}, {"optional", "pseudo"}}]

PlannedLists(k) == UNION {[1..m -> ActionKinds] : m \in 0..k}

\* Primitives (instances or children of a cloned group) with at most f facts
Primitives(f) ==
    UNION {{[running |-> b, planned |-> l, actions |-> <<>>] :
                l \in PlannedLists(f - B2N(b))} :
           b \in {x \in BOOLEAN : B2N(x) <= f}}

PrimitiveFacts(p) == B2N(p.running) + Len(p.planned)

InstanceFacts(x) ==
    B2N(x.node # "n1") + B2N(x.running) + Len(x.planned)
    + (IF Len(x.children) = 0 THEN 0
       ELSE PrimitiveFacts(x.children[1]) + PrimitiveFacts(x.children[2]))

\* Primitive instances with at most f facts
NativeInstances(f) ==
    UNION {{[node |-> n, running |-> p.running, planned |-> p.planned,
             actions |-> <<>>, children |-> <<>>] :
                p \in Primitives(f - B2N(n # "n1"))} :
           n \in {x \in Nodes : B2N(x # "n1") <= f}}

\* Cloned groups of two primitives with at most f facts; the node of a
\* group is read by none of the functions, so every group is on the first
GroupInstances(f) ==
    UNION {UNION {
        {[node |-> "n1", running |-> FALSE, planned |-> l, actions |-> <<>>,
          children |-> <<c1, c2>>] :
            c2 \in Primitives(f - Len(l) - PrimitiveFacts(c1))} :
        c1 \in Primitives(f - Len(l))} :
        l \in PlannedLists(f)}

\* The instances of a variant with 0, 1, ... c facts, as a list of sets
RECURSIVE ByFacts(_, _)
ByFacts(S, c) ==
    IF c < 0 THEN <<>>
    ELSE Append(ByFacts(S, c - 1), {x \in S : InstanceFacts(x) = c})

NativeByFacts == ByFacts(NativeInstances(MaxFacts), MaxFacts)
GroupByFacts == ByFacts(GroupInstances(MaxFacts), MaxFacts)

\* a_inst is a list of k more instances after acc, with at most f facts
RECURSIVE ActionInstanceList(_, _, _, _)
ActionInstanceList(v, k, f, acc) ==
    IF k = 0 THEN a_inst = acc
    ELSE \E c \in 0..f :
            \E x \in (IF v = "native" THEN NativeByFacts[c + 1]
                      ELSE GroupByFacts[c + 1]) :
                ActionInstanceList(v, k - 1, f - c, Append(acc, x))

\* Settings of the out-parameters that count as facts: a pointer that is
\* not NULL (to an empty or an already set notify_data_t), and a collective
\* without notifications
NotifyFacts(nt) ==
    B2N(nt.start # "absent") + B2N(nt.stop # "absent") + B2N(~nt.enabled)

NotifyInputs ==
    [start : {"absent", "empty", "set"}, stop : {"absent", "empty", "set"},
     enabled : BOOLEAN]

\* The actions of the notify sets that exist before the call
preset_notify_actions(nt) ==
    (IF nt.start = "set" THEN notif_pseudo_ops("start_notify", "start",
                                               "started") ELSE <<>>)
    @@ (IF nt.stop = "set" THEN notif_pseudo_ops("stop_notify", "stop",
                                                 "stopped") ELSE <<>>)

\* The assignment functions are not running
NoAssignment ==
    /\ node_status = [n \in Nodes |-> "online"]
    /\ parent_nodes = <<>>
    /\ rsc_cons = <<>>
    /\ rsc_cons_lhs = <<>>
    /\ inst = <<>>
    /\ placement = {}
    /\ max_total = 0
    /\ max_per_node = 1
    /\ pc = "off"
    /\ iter = 1
    /\ assigned = 0
    /\ available_nodes = 0
    /\ calls = 0
    /\ entry = <<>>
    /\ last = [op |-> "none", inst |-> 0]
    /\ assert_failed = FALSE
    /\ invoked = NotInvoked

InitActions ==
    /\ NoAssignment
    /\ NoInterleave
    /\ variant \in {"native", "group"}
    /\ notify \in {nt \in NotifyInputs : NotifyFacts(nt) <= MaxFacts}
    /\ ActionInstanceList(variant, MaxInst, MaxFacts - NotifyFacts(notify),
                          <<>>)
    /\ state = {}
    /\ coll = preset_notify_actions(notify)
    /\ orderings = {}
    /\ apc = "create"
    /\ aiter = 1
    /\ summary = [action |-> "none", node |-> NULL, flags |-> {}]

(* --------------------------- action steps ----------------------------- *)
\* One iteration of the loop of pcmk__create_instance_actions (lines 521-526)
CreateStep ==
    /\ apc = "create"
    /\ aiter <= Len(a_inst)
    /\ a_inst' = [a_inst EXCEPT ![aiter] = create_actions(@)]
    /\ state' = check_instance_state(create_actions(a_inst[aiter]), state)
    /\ aiter' = aiter + 1
    /\ UNCHANGED <<variant, coll, notify, orderings, apc, summary>>
    /\ UNCHANGED <<svars, ivars>>

\* A test that does not look at the out-parameter (no "*notify == NULL")
builds_notify_always(param) == notify.enabled

\* Whether pe__clone_notif_pseudo_ops() is called for an out-parameter and
\* returns a set (lines 540, 557)
builds_notify(param) == param = "empty" /\ notify.enabled

\* The rest of pcmk__create_instance_actions (lines 528-565)
CreateFinish ==
    /\ apc = "create"
    /\ aiter > Len(a_inst)
    /\ LET start == new_rsc_pseudo_action("start",
                        instance_starting \notin state, TRUE)
           started0 == new_rsc_pseudo_action("started",
                        instance_starting \notin state, FALSE)
           started == [started0 EXCEPT
                         !.priority = INFINITY,
                         !.flags = IF state \cap {instance_active,
                                                  instance_starting} # {}
                                   THEN @ \cup {"runnable"} ELSE @]
           stop0 == new_rsc_pseudo_action("stop",
                        instance_stopping \notin state, TRUE)
           stop == [stop0 EXCEPT
                      !.flags = IF instance_restarting \notin state
                                THEN @ \cup {"migrate_runnable"} ELSE @]
           stopped0 == new_rsc_pseudo_action("stopped",
                        instance_stopping \notin state, TRUE)
           stopped == [stopped0 EXCEPT !.priority = INFINITY]
           start_notify == IF builds_notify(notify.start) THEN "built"
                           ELSE notify.start
           stop_notify == IF builds_notify(notify.stop) THEN "built"
                          ELSE notify.stop
       IN  /\ coll' = ("start" :> start) @@ ("started" :> started)
                      @@ ("stop" :> stop) @@ ("stopped" :> stopped)
                      @@ (IF builds_notify(notify.start)
                          THEN notif_pseudo_ops("start_notify", "start",
                                                "started") ELSE <<>>)
                      @@ (IF builds_notify(notify.stop)
                          THEN notif_pseudo_ops("stop_notify", "stop",
                                                "stopped") ELSE <<>>)
                      @@ coll
           /\ notify' = [notify EXCEPT !.start = start_notify,
                                       !.stop = stop_notify]
           /\ orderings' =
                 IF /\ notify.stop = "empty"
                    /\ start_notify \in {"set", "built"}
                    /\ stop_notify \in {"set", "built"}
                 THEN orderings \cup
                        {[first |-> "stop_notify_post_done",
                          then |-> "start_notify_pre",
                          type |-> "pe_order_optional"]}
                 ELSE orderings
    /\ apc' = "created"
    /\ UNCHANGED <<variant, a_inst, state, aiter, summary>>
    /\ UNCHANGED <<svars, ivars>>

\* A call of pcmk__collective_action_flags(action, instances, node) for one
\* of the collective's actions
CollectiveActionFlags ==
    /\ apc = "created"
    /\ \E key \in DOMAIN coll : \E node \in Nodes \cup {NULL} :
          LET res == collective_action_flags(coll[key], node)
          IN  /\ summary' = [action |-> key, node |-> node,
                             flags |-> res.flags]
              /\ coll' = [coll EXCEPT ![key].flags = res.object]
    /\ apc' = "folded"
    /\ UNCHANGED <<variant, a_inst, state, notify, orderings, aiter>>
    /\ UNCHANGED <<svars, ivars>>

NextActions == CreateStep \/ CreateFinish \/ CollectiveActionFlags

SpecActions == InitActions /\ [][NextActions]_vars

(* ----------------------- ordered-action updates ----------------------- *)
\* enum pe_obj_types: the variants that are not below pe_clone
CollectiveVariants == {"clone", "container"}

\* pcmk__ends_with(s, "_" words): s ends with the words and has more before
pcmk__ends_with(uuid, words) ==
    /\ Len(uuid) > Len(words)
    /\ SubSeq(uuid, Len(uuid) - Len(words) + 1, Len(uuid)) = words

\* crm_is_true() of a meta-attribute value; "absent" is a failed lookup
crm_is_true(v) == v \in {"true", "on", "yes", "y", "1"}

\* can_interleave_actions with the "then" resource always governing
can_interleave_actions_then_governs(first, then) ==
    IF first.rsc = NULL \/ then.rsc = NULL THEN FALSE
    ELSE IF first.rsc = then.rsc THEN FALSE
    ELSE IF \/ i_rsc[first.rsc].variant \notin CollectiveVariants
            \/ i_rsc[then.rsc].variant \notin CollectiveVariants
    THEN FALSE
    ELSE crm_is_true(i_rsc[then.rsc].interleave)

\* can_interleave_actions(first, then) (lines 980-1016)
can_interleave_actions(first, then) ==
    IF first.rsc = NULL \/ then.rsc = NULL THEN FALSE
    ELSE IF first.rsc = then.rsc THEN FALSE
    ELSE IF \/ i_rsc[first.rsc].variant \notin CollectiveVariants
            \/ i_rsc[then.rsc].variant \notin CollectiveVariants
    THEN FALSE
    ELSE LET rsc == IF \/ pcmk__ends_with(then.uuid, <<"stop", "0">>)
                       \/ pcmk__ends_with(then.uuid, <<"demote", "0">>)
                    THEN first.rsc ELSE then.rsc
         IN  crm_is_true(i_rsc[rsc].interleave)

\* get_instance_list(rsc) (lines 579-587): the children, or the containers
get_instance_list(rsc) == i_rsc[rsc].instances

\* instance->fns->location(instance, NULL, current)
location_of(instance, current) ==
    IF current THEN instance.running ELSE instance.assigned

\* instance->fns->state(instance, current)
state_of(instance, current) ==
    IF current THEN instance.role ELSE instance.next_role

\* is_set_recursive(instance, pe_rsc_block, true)
is_set_recursive_block(instance) == instance.blocked

\* The match that takes blocked instances too
instance_matches_blocked_too(instance, node, role, current) ==
    IF role # "unknown" /\ role # state_of(instance, current) THEN FALSE
    ELSE LET instance_node == location_of(instance, current)
         IN  IF instance_node = NULL THEN FALSE
             ELSE instance_node = node

\* pcmk__instance_matches(instance, node, role, current) (lines 617-654)
instance_matches(instance, node, role, current) ==
    IF role # "unknown" /\ role # state_of(instance, current) THEN FALSE
    ELSE LET instance_node == IF ~is_set_recursive_block(instance)
                              THEN location_of(instance, current)
                              ELSE NULL
         IN  IF instance_node = NULL THEN FALSE
             ELSE instance_node = node

\* find_compatible_instance_on_node() (lines 669-696) from list position k
\* on: the position of the first matching instance of rsc, 0 if none
RECURSIVE find_compatible_instance_on_node(_, _, _, _, _)
find_compatible_instance_on_node(rsc, k, node, role, current) ==
    IF k > Len(get_instance_list(rsc)) THEN 0
    ELSE IF instance_matches(get_instance_list(rsc)[k], node, role, current)
    THEN k
    ELSE find_compatible_instance_on_node(rsc, k + 1, node, role, current)

\* The loop that takes the first instance of the list matching any of the
\* nodes, whatever the order of the nodes
find_on_allowed_nodes_list_order(nodes, k, rsc, role, current) ==
    LET found == {p \in 1..Len(get_instance_list(rsc)) :
                    \E j \in k..Len(nodes) :
                        instance_matches(get_instance_list(rsc)[p], nodes[j],
                                         role, current)}
    IN  IF found = {} THEN 0
        ELSE CHOOSE p \in found : \A q \in found : p <= q

\* The loop of pcmk__find_compatible_instance over the sorted allowed nodes
\* (lines 727-734), from position k of the sorted list on
RECURSIVE find_on_allowed_nodes(_, _, _, _, _)
find_on_allowed_nodes(nodes, k, rsc, role, current) ==
    IF k > Len(nodes) THEN 0
    ELSE LET instance == find_compatible_instance_on_node(rsc, 1, nodes[k],
                                                          role, current)
         IN  IF instance # 0 THEN instance
             ELSE find_on_allowed_nodes(nodes, k + 1, rsc, role, current)

\* The search that tries every node whatever the location of match_rsc
find_compatible_instance_any_node(match_rsc, rsc, role, current) ==
    find_on_allowed_nodes(match_rsc.allowed, 1, rsc, role, current)

\* pcmk__find_compatible_instance(match_rsc, rsc, role, current)
\* (lines 711-742): position in rsc's instance list, 0 if none
find_compatible_instance(match_rsc, rsc, role, current) ==
    LET node == location_of(match_rsc, current)
    IN  IF node # NULL
        THEN find_compatible_instance_on_node(rsc, 1, node, role, current)
        ELSE find_on_allowed_nodes(match_rsc.allowed, 1, rsc, role, current)

\* pcmk__get_rsc_in_container(instance): the actions of the containerized
\* resource in a list of one, the empty list if the instance has none
get_rsc_in_container(instance) == instance.inner

\* find_instance_action() that keeps the caller's node for the
\* containerized resource
find_instance_action_keeps_node(action, instance, action_name, node, for_first) ==
    LET inner_wanted ==
            \/ for_first /\ action.task \notin {"stop", "stopped"}
            \/ ~for_first /\ action.task \in {"promote", "promoted",
                                              "demote", "demoted"}
        use_inner == inner_wanted /\ get_rsc_in_container(instance) # <<>>
    IN  [inner |-> use_inner,
         pos |-> IF use_inner
                 THEN find_first_action(get_rsc_in_container(instance)[1], 1,
                                        action_name, node)
                 ELSE find_first_action(instance.actions, 1, action_name,
                                        node)]

\* find_instance_action(action, instance, action_name, node, for_first)
\* (lines 796-851): whether the containerized resource is used, and the
\* position of the action found in its list, 0 if none
find_instance_action(action, instance, action_name, node, for_first) ==
    LET inner_wanted ==
            \/ for_first /\ action.task \notin {"stop", "stopped"}
            \/ ~for_first /\ action.task \in {"promote", "promoted",
                                              "demote", "demoted"}
        use_inner == inner_wanted /\ get_rsc_in_container(instance) # <<>>
    IN  [inner |-> use_inner,
         pos |-> IF use_inner
                 THEN find_first_action(get_rsc_in_container(instance)[1], 1,
                                        action_name, NULL)
                 ELSE find_first_action(instance.actions, 1, action_name,
                                        node)]

\* The action that find_instance_action() found
instance_action(instance, found) ==
    IF found.inner THEN get_rsc_in_container(instance)[1][found.pos]
    ELSE instance.actions[found.pos]

\* current taken from the "then" action
is_current_of_then(first, then) ==
    \/ pcmk__ends_with(then.uuid, <<"stopped", "0">>)
    \/ pcmk__ends_with(then.uuid, <<"demoted", "0">>)

\* The local "current" of update_interleaved_actions (lines 917-920)
is_current(first, then) ==
    \/ pcmk__ends_with(first.uuid, <<"stopped", "0">>)
    \/ pcmk__ends_with(first.uuid, <<"demoted", "0">>)

\* unassign_if_mandatory() that does not look at current
unassigns_whatever_current(type, current) ==
    type \cap {"pe_order_runnable_left", "pe_order_implies_then"} # {}

\* unassign_if_mandatory() that looks at pe_order_runnable_left only
unassigns_runnable_left_only(type, current) ==
    ~current /\ "pe_order_runnable_left" \in type

\* Whether unassign_if_mandatory() unassigns (lines 761-777)
unassigns(type, current) ==
    /\ ~current
    /\ type \cap {"pe_order_runnable_left", "pe_order_implies_then"} # {}

\* pcmk__assign_resource(then_instance, NULL, true): the instance afterwards
unassigned(instance) == [instance EXCEPT !.assigned = NULL]

(* ---------------------- ordered-action inputs ------------------------- *)
\* The plain configuration is two interleaved clones A and B of primitives,
\* instance k of each on node NodeOf(k) with runnable start, stop and demote
\* actions there, and an ordering "A's action then B's action"; at most
\* MaxUnusual settings of one configuration differ from it.
NodeOf(k) == IF k % 2 = 1 THEN "n1" ELSE "n2"

ActionWords(t) == [task |-> t, words |-> <<t, "0">>]

FirstKinds ==
    {ActionWords(t) : t \in {"start", "started", "stop", "stopped",
                             "demoted"}}
    \cup {[task |-> "notified",
           words |-> <<"confirmed-post", "notify", "stopped", "0">>]}

ThenKinds ==
    {ActionWords(t) : t \in {"start", "stop", "stopped", "demote"}}
    \cup {[task |-> "notify", words |-> <<"pre", "notify", "stop", "0">>]}

\* The action of a kind for a resource (or for none: a fencing action)
ordered_action(rsc, kind) ==
    [rsc |-> rsc, task |-> kind.task,
     uuid |-> <<IF rsc = NULL THEN "stonith" ELSE rsc>> \o kind.words]

PlainActions(n) ==
    [j \in 1..3 |-> [task |-> <<"start", "stop", "demote">>[j], node |-> n,
                     flags |-> {"runnable"}]]

\* The plain action list, with one action missing, or with one unrunnable
ActionLists(n) ==
    {PlainActions(n)}
    \cup {SubSeq(PlainActions(n), 1, j - 1)
          \o SubSeq(PlainActions(n), j + 1, 3) : j \in 1..3}
    \cup {[PlainActions(n) EXCEPT ![j].flags = {}] : j \in 1..3}

PlainInstance(k) ==
    [assigned |-> NodeOf(k), running |-> NodeOf(k), blocked |-> FALSE,
     orphan |-> FALSE, role |-> "started", next_role |-> "started",
     allowed |-> <<"n1", "n2">>, inner |-> <<>>,
     actions |-> PlainActions(NodeOf(k))]

OrderedInstances(k) ==
    {[PlainInstance(k) EXCEPT !.assigned = a, !.running = r, !.blocked = b,
                              !.allowed = al, !.actions = ac] :
        a \in Nodes \cup {NULL}, r \in Nodes \cup {NULL}, b \in BOOLEAN,
        al \in {<<"n1", "n2">>, <<"n2", "n1">>, <<>>},
        ac \in ActionLists(NodeOf(k))}

\* Number of fields of instance x that differ from the plain instance k
InstanceUnusual(x, k) ==
    B2N(x.assigned # PlainInstance(k).assigned)
    + B2N(x.running # PlainInstance(k).running)
    + B2N(x.blocked) + B2N(x.allowed # PlainInstance(k).allowed)
    + B2N(x.actions # PlainInstance(k).actions)

\* For k = 1..n, the instances k with 0, 1, ... MaxUnusual unusual fields
RECURSIVE OrderedByUnusual(_, _)
OrderedByUnusual(k, c) ==
    IF c < 0 THEN <<>>
    ELSE Append(OrderedByUnusual(k, c - 1),
                {x \in OrderedInstances(k) : InstanceUnusual(x, k) = c})

RECURSIVE OrderedInstanceTable(_)
OrderedInstanceTable(n) ==
    IF n = 0 THEN <<>>
    ELSE Append(OrderedInstanceTable(n - 1), OrderedByUnusual(n, MaxUnusual))

OrderedInstanceSets == OrderedInstanceTable(MaxInst)

\* A setting: the plain value, or another one if the budget f allows it
Setting(plain, others, f) == IF f > 0 THEN {plain} \cup others ELSE {plain}

\* An ordering installed by order_actions(first_action, then_action, type)
ordering(first_inst, first_action, then_inst, then_action, type) ==
    [first_inst |-> first_inst, first_action |-> first_action,
     then_inst |-> then_inst, then_action |-> then_action, type |-> type]

\* The ordering between the actions of the first instances of the two
\* resources that an earlier update installed
ordered_before ==
    {ordering(1,
              find_instance_action(i_first, PlainInstance(1),
                                   orig_action_name(i_first), NULL, TRUE),
              1,
              find_instance_action(i_then, PlainInstance(1), i_then.task,
                                   NULL, FALSE),
              i_type)}

\* order_actions(first_action, then_action, type): true if the ordering o
\* is new
order_actions(o) == o \notin i_before \cup i_orderings

\* The variables once every setting sc is chosen; acc lists the instances
\* of A, then those of B (a primitive has no instances)
OrderedConfig(sc, acc) ==
    /\ i_first = ordered_action(sc.first_rsc, sc.first_kind)
    /\ i_then = ordered_action(sc.then_rsc, sc.then_kind)
    /\ i_rsc = [r \in {"A", "B"} |->
                  [variant |-> sc.variant[r], interleave |-> sc.interleave[r],
                   instances |->
                      IF sc.variant[r] = "native" THEN <<>>
                      ELSE IF r = "A" THEN SubSeq(acc, 1, MaxInst)
                      ELSE SubSeq(acc, MaxInst + 1, 2 * MaxInst)]]
    /\ i_node = sc.node
    /\ i_type = sc.type
    /\ i_inner = sc.inner
    /\ variant = sc.instance_variant
    /\ i_before = IF sc.before THEN ordered_before ELSE {}

\* Instances k, k + 1, ... of the two resources with at most f unusual fields
RECURSIVE OrderedInstanceList(_, _, _, _)
OrderedInstanceList(sc, k, f, acc) ==
    IF k > 2 * MaxInst THEN OrderedConfig(sc, acc)
    ELSE \E c \in 0..f :
            \E x \in OrderedInstanceSets[((k - 1) % MaxInst) + 1][c + 1] :
                OrderedInstanceList(sc, k + 1, f - c, Append(acc, x))

\* The calls around a plain configuration with the interleave
\* meta-attribute meta and the nested update reporting inner
OrderedInit(meta, inner) ==
    /\ NoAssignment
    /\ a_inst = <<>>
    /\ state = {}
    /\ coll = <<>>
    /\ notify = [start |-> "absent", stop |-> "absent", enabled |-> FALSE]
    /\ orderings = {}
    /\ apc = "off"
    /\ aiter = 1
    /\ summary = [action |-> "none", node |-> NULL, flags |-> {}]
    /\ ipc = "call"
    /\ i_iter = 1
    /\ i_current = FALSE
    /\ i_changed = {}
    /\ i_orderings = {}
    /\ i_calls = <<>>
    /\ i_last = [op |-> "none", then_inst |-> 0, first_inst |-> 0,
                 reported |-> FALSE]
    /\ \E fk \in FirstKinds : \E tk \in ThenKinds :
       \E ty \in {{"pe_order_optional"}, {"pe_order_runnable_left"},
                  {"pe_order_implies_then"}} :
       \E fr \in Setting("A", {NULL, "B"}, MaxUnusual) :
       LET f1 == MaxUnusual - B2N(fr # "A") IN
       \E tr \in Setting("B", {NULL}, f1) :
       LET f2 == f1 - B2N(tr # "B") IN
       \E va \in Setting("clone", {"native", "group", "container"}, f2) :
       LET f3 == f2 - B2N(va # "clone") IN
       \E vb \in Setting("clone", {"native", "group", "container"}, f3) :
       LET f4 == f3 - B2N(vb # "clone") IN
       \E ma \in Setting(meta, {"absent", "false", "true"} \ {meta}, f4) :
       LET f5 == f4 - B2N(ma # meta) IN
       \E mb \in Setting(meta, {"absent", "false", "true"} \ {meta}, f5) :
       LET f6 == f5 - B2N(mb # meta) IN
       \E nd \in Setting(NULL, Nodes, f6) :
       LET f7 == f6 - B2N(nd # NULL) IN
       \E iv \in Setting("native", {"group"}, f7) :
       LET f8 == f7 - B2N(iv # "native") IN
       \E inn \in Setting(inner,
                          {{}, {"updated_first"}, {"updated_then"}}
                          \ {inner}, f8) :
       LET f9 == f8 - B2N(inn # inner) IN
       \E before \in Setting(FALSE, {TRUE}, f9) :
       LET f10 == f9 - B2N(before) IN
           OrderedInstanceList(
               [first_rsc |-> fr, first_kind |-> fk, then_rsc |-> tr,
                then_kind |-> tk, type |-> ty,
                variant |-> [r \in {"A", "B"} |->
                                IF r = "A" THEN va ELSE vb],
                interleave |-> [r \in {"A", "B"} |->
                                   IF r = "A" THEN ma ELSE mb],
                node |-> nd, instance_variant |-> iv, inner |-> inn,
                before |-> before],
               1, f10, <<>>)

InitInterleave == OrderedInit("true", {})

\* The same calls around a configuration without interleaving, the nested
\* update reporting updated_then
InitNonInterleave == OrderedInit("false", {"updated_then"})

(* ----------------------- ordered-action steps ------------------------- *)
\* The marking of both actions after an unassignment
unassigned_flags_both(reported) ==
    IF reported THEN {"updated_first", "updated_then"} ELSE {}

\* Lines 938-941: what unassign_if_mandatory() returning "reported" adds to
\* "changed"
unassigned_flags(reported) == IF reported THEN {"updated_then"} ELSE {}

\* The marking that does not look at what order_actions() returned
ordered_flags_always(newly_ordered) == {"updated_first", "updated_then"}

\* Lines 958-961: what a call of order_actions() adds to "changed"
ordered_flags(newly_ordered) ==
    IF newly_ordered THEN {"updated_first", "updated_then"} ELSE {}

\* The propagation that does not look at what the update reported
propagates_changes_always(changed) == TRUE

\* Lines 1068-1075: changes are propagated to the actions after the
\* instance action only if the update reported updated_then
propagates_changes(changed) == "updated_then" \in changed

\* One entry of the log of calls to the external functions
external_call(fn, first_inst, first_action, then_inst, then_action, flags, new) ==
    [fn |-> fn, first_inst |-> first_inst, first_action |-> first_action,
     then_inst |-> then_inst, then_action |-> then_action, flags |-> flags,
     new |-> new]

no_action == [inner |-> FALSE, pos |-> 0]

\* Entry of pcmk__instance_update_ordered_actions (lines 1109-1121)
InstanceUpdateOrderedActions ==
    /\ ipc = "call"
    /\ IF i_then.rsc = NULL
       THEN /\ ipc' = "done"
            /\ UNCHANGED <<i_current, i_changed, i_calls>>
       ELSE IF can_interleave_actions(i_first, i_then)
       THEN /\ ipc' = "interleaved"
            /\ i_current' = is_current(i_first, i_then)
            /\ UNCHANGED <<i_changed, i_calls>>
       ELSE /\ ipc' = "noninterleaved"
            /\ i_calls' = Append(i_calls,
                             external_call("pcmk__update_ordered_actions", 0,
                                           no_action, 0, no_action, {},
                                           FALSE))
            /\ i_changed' = i_inner
            /\ UNCHANGED i_current
    /\ i_iter' = 1
    /\ UNCHANGED <<i_before, i_first, i_then, i_rsc, i_node, i_type, i_inner,
                   i_orderings, i_last>>
    /\ UNCHANGED <<svars, avars>>

\* One iteration of the loop of update_interleaved_actions (lines 924-966)
InterleavedStep ==
    /\ ipc = "interleaved"
    /\ i_iter <= Len(get_instance_list(i_then.rsc))
    /\ LET then_instance == get_instance_list(i_then.rsc)[i_iter]
           first_inst == find_compatible_instance(then_instance, i_first.rsc,
                                                  "unknown", i_current)
           step(op, reported) == [op |-> op, then_inst |-> i_iter,
                                  first_inst |-> first_inst,
                                  reported |-> reported]
       IN  IF first_inst = 0
           THEN IF unassigns(i_type, i_current)
                THEN \E reported \in BOOLEAN :
                        /\ i_rsc' = [i_rsc EXCEPT
                                       ![i_then.rsc].instances[i_iter] =
                                           unassigned(@)]
                        /\ i_changed' =
                              i_changed \cup unassigned_flags(reported)
                        /\ i_last' = step("unassigned", reported)
                        /\ UNCHANGED <<i_orderings, i_calls>>
                ELSE /\ i_last' = step("no_match", FALSE)
                     /\ UNCHANGED <<i_rsc, i_changed, i_orderings, i_calls>>
           ELSE LET first_instance ==
                        get_instance_list(i_first.rsc)[first_inst]
                    first_action ==
                        find_instance_action(i_first, first_instance,
                                             orig_action_name(i_first),
                                             i_node, TRUE)
                    then_action ==
                        find_instance_action(i_then, then_instance,
                                             i_then.task, i_node, FALSE)
                    o == ordering(first_inst, first_action, i_iter,
                                  then_action, i_type)
                IN  IF first_action.pos = 0
                    THEN /\ i_last' = step("no_first_action", FALSE)
                         /\ UNCHANGED <<i_rsc, i_changed, i_orderings,
                                        i_calls>>
                    ELSE IF then_action.pos = 0
                    THEN /\ i_last' = step("no_then_action", FALSE)
                         /\ UNCHANGED <<i_rsc, i_changed, i_orderings,
                                        i_calls>>
                    ELSE /\ i_orderings' = i_orderings \cup {o}
                         /\ i_changed' =
                               i_changed
                               \cup ordered_flags(order_actions(o))
                               \cup i_inner
                         /\ i_calls' =
                               i_calls
                               \o <<external_call("order_actions", first_inst,
                                        first_action, i_iter, then_action,
                                        {}, order_actions(o)),
                                    external_call("update_ordered_actions",
                                        first_inst, first_action, i_iter,
                                        then_action,
                                        action_flags(
                                            instance_action(first_instance,
                                                            first_action),
                                            i_node),
                                        FALSE)>>
                         /\ i_last' = step("ordered", FALSE)
                         /\ UNCHANGED i_rsc
    /\ i_iter' = i_iter + 1
    /\ UNCHANGED <<i_before, i_first, i_then, i_node, i_type, i_inner, ipc, i_current>>
    /\ UNCHANGED <<svars, avars>>

\* update_noninterleaved_actions() for one "then" instance
\* (lines 1040-1078, called from the loop at lines 1124-1129)
NonInterleavedStep ==
    /\ ipc = "noninterleaved"
    /\ i_iter <= Len(get_instance_list(i_then.rsc))
    /\ LET instance == get_instance_list(i_then.rsc)[i_iter]
           found == find_first_action(instance.actions, 1, i_then.task,
                                      i_node)
           then_action == [inner |-> FALSE, pos |-> found]
           step(op) == [op |-> op, then_inst |-> i_iter, first_inst |-> 0,
                        reported |-> FALSE]
       IN  IF found = 0
           THEN /\ i_last' = step("no_then_action")
                /\ UNCHANGED <<i_changed, i_calls>>
           ELSE IF "runnable" \notin action_flags(instance.actions[found],
                                                  i_node)
           THEN /\ i_last' = step("unrunnable")
                /\ UNCHANGED <<i_changed, i_calls>>
           ELSE /\ i_last' = step("updated")
                /\ i_changed' = i_changed \cup i_inner
                /\ i_calls' =
                      i_calls
                      \o <<external_call("update_ordered_actions", 0,
                                         no_action, i_iter, then_action, {},
                                         FALSE)>>
                      \o (IF propagates_changes(i_inner)
                          THEN <<external_call(
                                    "pcmk__update_action_for_orderings", 0,
                                    no_action, i_iter, then_action, {},
                                    FALSE)>>
                          ELSE <<>>)
    /\ i_iter' = i_iter + 1
    /\ UNCHANGED <<i_before, i_first, i_then, i_rsc, i_node, i_type, i_inner, ipc,
                   i_current, i_orderings>>
    /\ UNCHANGED <<svars, avars>>

\* The end of either loop: the function returns "changed"
OrderedActionsReturn ==
    /\ ipc \in {"interleaved", "noninterleaved"}
    /\ i_iter > Len(get_instance_list(i_then.rsc))
    /\ ipc' = "done"
    /\ UNCHANGED <<i_before, i_first, i_then, i_rsc, i_node, i_type, i_inner, i_iter,
                   i_current, i_changed, i_orderings, i_calls, i_last>>
    /\ UNCHANGED <<svars, avars>>

NextInterleave ==
    \/ InstanceUpdateOrderedActions
    \/ InterleavedStep
    \/ NonInterleavedStep
    \/ OrderedActionsReturn

SpecInterleave == InitInterleave /\ [][NextInterleave]_vars

SpecNonInterleave == InitNonInterleave /\ [][NextInterleave]_vars

(* ------------------------- instance matching -------------------------- *)
\* Number of fields, over the resource to match and the instances searched,
\* that differ from the plain ones in one search
MaxMatchFacts == 3

\* enum rsc_role_e, as far as the searches tell roles apart
Roles == {"unknown", "started", "promoted"}

\* The instances searched: any location, blocked or not, any role
MatchInstances(k) ==
    {[PlainInstance(k) EXCEPT !.assigned = a, !.running = r, !.blocked = b,
                              !.role = ro, !.next_role = nr] :
        a \in Nodes \cup {NULL}, r \in Nodes \cup {NULL}, b \in BOOLEAN,
        ro \in Roles \ {"unknown"}, nr \in Roles \ {"unknown"}}

\* The resource to match: any location, any sorted list of allowed nodes
MatchSubjects ==
    {[PlainInstance(1) EXCEPT !.assigned = a, !.running = r, !.allowed = al] :
        a \in Nodes \cup {NULL}, r \in Nodes \cup {NULL},
        al \in {<<"n1", "n2">>, <<"n2", "n1">>, <<"n2">>, <<>>}}

MatchFacts(x, k) ==
    B2N(x.assigned # PlainInstance(k).assigned)
    + B2N(x.running # PlainInstance(k).running)
    + B2N(x.blocked) + B2N(x.allowed # PlainInstance(k).allowed)
    + B2N(x.role # PlainInstance(k).role)
    + B2N(x.next_role # PlainInstance(k).next_role)

\* The elements of S with 0, 1, ... c facts, as instance k
RECURSIVE MatchByFacts(_, _, _)
MatchByFacts(S, k, c) ==
    IF c < 0 THEN <<>>
    ELSE Append(MatchByFacts(S, k, c - 1),
                {x \in S : MatchFacts(x, k) = c})

RECURSIVE MatchInstanceTable(_)
MatchInstanceTable(n) ==
    IF n = 0 THEN <<>>
    ELSE Append(MatchInstanceTable(n - 1),
                MatchByFacts(MatchInstances(n), n, MaxMatchFacts))

MatchInstanceSets == MatchInstanceTable(MaxInst)

MatchSubjectSets == MatchByFacts(MatchSubjects, 1, MaxMatchFacts)

\* The variables of a search: resource A has the instance to match,
\* resource B the instances searched
MatchConfig(subject, acc) ==
    /\ i_rsc = [r \in {"A", "B"} |->
                  [variant |-> "clone", interleave |-> "absent",
                   instances |-> IF r = "A" THEN <<subject>> ELSE acc]]
    /\ i_first = [rsc |-> NULL, task |-> "none", uuid |-> <<>>]
    /\ i_then = [rsc |-> NULL, task |-> "none", uuid |-> <<>>]
    /\ i_node = NULL
    /\ i_type = {}
    /\ i_inner = {}
    /\ ipc = "match"
    /\ i_iter = 1
    /\ i_current = FALSE
    /\ i_changed = {}
    /\ i_orderings = {}
    /\ i_before = {}
    /\ i_calls = <<>>
    /\ i_last = [op |-> "none"]

\* Instances k, k + 1, ... of B with at most f facts in total
RECURSIVE MatchInstanceList(_, _, _, _)
MatchInstanceList(subject, k, f, acc) ==
    IF k > MaxInst THEN MatchConfig(subject, acc)
    ELSE \E c \in 0..f :
            \E x \in MatchInstanceSets[k][c + 1] :
                MatchInstanceList(subject, k + 1, f - c, Append(acc, x))

InitMatch ==
    /\ NoAssignment
    /\ NoActions
    /\ \E c \in 0..MaxMatchFacts :
          \E subject \in MatchSubjectSets[c + 1] :
              MatchInstanceList(subject, 1, MaxMatchFacts - c, <<>>)

\* A call of pcmk__find_compatible_instance(match_rsc, rsc, role, current)
FindCompatibleInstance ==
    /\ ipc = "match"
    /\ \E role \in Roles : \E current \in BOOLEAN :
          i_last' = [op |-> "find", role |-> role, current |-> current,
                     instance |->
                        find_compatible_instance(i_rsc["A"].instances[1],
                                                 "B", role, current)]
    /\ ipc' = "matched"
    /\ UNCHANGED <<i_before, i_first, i_then, i_rsc, i_node, i_type, i_inner, i_iter,
                   i_current, i_changed, i_orderings, i_calls>>
    /\ UNCHANGED <<svars, avars>>

\* A call of pcmk__instance_matches(instance, node, role, current)
InstanceMatches ==
    /\ ipc = "match"
    /\ \E k \in 1..MaxInst : \E node \in Nodes :
       \E role \in Roles : \E current \in BOOLEAN :
          i_last' = [op |-> "matches", instance |-> k, node |-> node,
                     role |-> role, current |-> current,
                     result |-> instance_matches(get_instance_list("B")[k],
                                                 node, role, current)]
    /\ ipc' = "matched"
    /\ UNCHANGED <<i_before, i_first, i_then, i_rsc, i_node, i_type, i_inner, i_iter,
                   i_current, i_changed, i_orderings, i_calls>>
    /\ UNCHANGED <<svars, avars>>

NextMatch == FindCompatibleInstance \/ InstanceMatches

SpecMatch == InitMatch /\ [][NextMatch]_vars

(* ------------------------- finding an action ------------------------- *)
\* The tasks of the collective action, and the names looked up
FindTasks ==
    {"start", "started", "stop", "stopped", "promote", "promoted", "demote",
     "demoted", "notify"}

FindNames == {"start", "stop", "demote"}

\* The instance searched: a clone instance (no containerized resource) or a
\* bundle container whose containerized resource has its actions on the
\* guest node, each with any of the action lists
FindInstances ==
    {[PlainInstance(1) EXCEPT !.inner = inner, !.actions = actions] :
        inner \in {<<>>} \cup {<<l>> : l \in ActionLists("guest")},
        actions \in ActionLists("n1")}

InitFind ==
    /\ NoAssignment
    /\ NoActions
    /\ \E task \in FindTasks :
          /\ i_first = [rsc |-> "B", task |-> task, uuid |-> <<"B", task, "0">>]
          /\ i_then = [rsc |-> "B", task |-> task, uuid |-> <<"B", task, "0">>]
    /\ \E instance \in FindInstances :
          i_rsc = [r \in {"A", "B"} |->
                     [variant |-> IF instance.inner = <<>> THEN "clone"
                                  ELSE "container",
                      interleave |-> "true",
                      instances |-> IF r = "B" THEN <<instance>> ELSE <<>>]]
    /\ i_node \in Nodes \cup {NULL}
    /\ i_type = {}
    /\ i_inner = {}
    /\ ipc = "find"
    /\ i_iter = 1
    /\ i_current = FALSE
    /\ i_changed = {}
    /\ i_orderings = {}
    /\ i_before = {}
    /\ i_calls = <<>>
    /\ i_last = [op |-> "none"]

\* A call of find_instance_action(action, instance, action_name, node,
\* for_first)
FindInstanceAction ==
    /\ ipc = "find"
    /\ \E action_name \in FindNames : \E for_first \in BOOLEAN :
          i_last' = [op |-> "find_action", action_name |-> action_name,
                     for_first |-> for_first,
                     found |-> find_instance_action(
                                  i_first, get_instance_list("B")[1],
                                  action_name, i_node, for_first)]
    /\ ipc' = "found"
    /\ UNCHANGED <<i_before, i_first, i_then, i_rsc, i_node, i_type, i_inner,
                   i_iter, i_current, i_changed, i_orderings, i_calls>>
    /\ UNCHANGED <<svars, avars>>

NextFind == FindInstanceAction

SpecFind == InitFind /\ [][NextFind]_vars

(* ------------------------------ claims -------------------------------- *)
\* Number of instances with a chosen node, in total and on one node
NumAssigned == Cardinality({i \in Instances : inst[i].allocated_to # NULL})
AssignedOn(n) == Cardinality({i \in Instances : inst[i].allocated_to = n})

\* C1: when pcmk__assign_instances has returned, at most max_total instances
\* of the collective have a chosen node.
C1_AtMostMaxTotal == pc = "done" => NumAssigned <= max_total

\* C1 witness: a call returned with max_total instances assigned and a
\* further instance left without a node because the limit was reached.
C1_Witness ==
    /\ pc = "done"
    /\ max_total >= 1
    /\ NumAssigned = max_total
    /\ \E p \in placement : inst[p.rsc].allocated_to = NULL

\* C2: in every state of both passes and after the return, no node has more
\* than max_per_node instances of the collective assigned to it.
C2_AtMostMaxPerNode == \A n \in Nodes : AssignedOn(n) <= max_per_node

\* C2 witness: optimal_per_node exceeds max_per_node and the first pass tried
\* an instance on its current node, which was already at the cap, without
\* the instance ending there.
C2_Witness ==
    /\ pc = "pass1"
    /\ optimal_per_node > max_per_node
    /\ last.op \in {"nowhere", "reverted"}
    /\ LET n == inst[last.inst].running_on
       IN  /\ n \in DOMAIN parent_nodes
           /\ parent_nodes[n].count = max_per_node
           /\ AssignedOn(n) = max_per_node

\* C3: every assigned instance is on a node whose score is >= 0 both in the
\* instance's allowed_nodes and in the parent's view of the node.
C3_NonNegativeScore ==
    \A i \in Instances :
        LET n == inst[i].allocated_to
        IN  n # NULL =>
              /\ n \in DOMAIN inst[i].allowed_nodes
              /\ inst[i].allowed_nodes[n] >= 0
              /\ n \in DOMAIN parent_nodes
              /\ parent_nodes[n].weight >= 0

\* C3 witness: an instance is assigned while the parent's score for another
\* of the instance's allowed nodes is negative and that node got banned.
C3_Witness ==
    \E i \in Instances : \E n \in DOMAIN inst[i].allowed_nodes :
        /\ inst[i].allocated_to \notin {NULL, n}
        /\ n \in DOMAIN parent_nodes
        /\ parent_nodes[n].weight < 0
        /\ inst[i].allowed_nodes[n] = -INFINITY

\* C4: an orphan instance that was provisional when the call started has no
\* chosen node, in either pass and after the return.
C4_OrphanNeverAssigned ==
    \A i \in Instances :
        (inst[i].orphan /\ entry[i].provisional) => inst[i].allocated_to = NULL

\* C4 witness: an orphan running on an available node went through the early
\* attempt on its current node and the call returned.
C4_Witness ==
    \E i \in Instances :
        /\ pc = "done"
        /\ inst[i].orphan
        /\ inst[i].running_on # NULL
        /\ node_available(inst[i].running_on, FALSE)
        /\ ~inst[i].provisional
        /\ inst[i].allocated_to = NULL

\* C5: during and after a second call with the same arguments every instance
\* keeps the chosen node (or the lack of one) the first call left.
C5_Idempotent ==
    calls >= 2 =>
        \A i \in Instances : inst[i].allocated_to = entry[i].allocated_to

\* C5 witness: the second call returned over a state in which one instance
\* is assigned and another one is still provisional.
C5_Witness ==
    /\ calls = 2
    /\ pc = "done"
    /\ \E i \in Instances : inst[i].allocated_to # NULL
    /\ \E i \in Instances : inst[i].provisional /\ entry[i].provisional

\* The parent's count of every allowed node equals the number of instances
\* assigned to the node
CountsMatch ==
    \A n \in DOMAIN parent_nodes : parent_nodes[n].count = AssignedOn(n)

\* C6 as stated: whenever pcmk__assign_instances has returned, after one or
\* several calls, every node's count equals the number of instances assigned
\* to it.
C6_CountsMatchAfterAnyCall == pc = "done" => CountsMatch

\* C6 amended: when a call that every instance entered provisional has
\* returned, every node's count equals the number of instances assigned to it.
C6_CountsMatchAfterFirstCall ==
    (pc = "done" /\ \A i \in Instances : entry[i].provisional) => CountsMatch

\* C6 witness: such a call returned with an instance assigned and counted.
C6_Witness ==
    /\ pc = "done"
    /\ \A i \in Instances : entry[i].provisional
    /\ \E n \in DOMAIN parent_nodes :
          parent_nodes[n].count >= 1 /\ AssignedOn(n) = parent_nodes[n].count

\* C7 as stated: every instance is either provisional without a chosen node
\* or non-provisional with a chosen node that is a key of its allowed_nodes.
C7_ProvisionalOrChosen ==
    \A i \in Instances :
        \/ inst[i].provisional /\ inst[i].allocated_to = NULL
        \/ /\ ~inst[i].provisional
           /\ inst[i].allocated_to \in DOMAIN inst[i].allowed_nodes

\* C7 amended: a provisional instance has no chosen node, a chosen node is a
\* key of the instance's allowed_nodes, and an instance whose early attempt
\* was reverted or that was banned for overflow is provisional without a
\* chosen node (an instance the assign primitive found no node for is
\* non-provisional without a chosen node).
C7_ChosenImpliesAssigned ==
    /\ \A i \in Instances :
          /\ inst[i].provisional => inst[i].allocated_to = NULL
          /\ inst[i].allocated_to # NULL =>
                inst[i].allocated_to \in DOMAIN inst[i].allowed_nodes
    /\ last.op \in {"reverted", "limit"} =>
          /\ inst[last.inst].provisional
          /\ inst[last.inst].allocated_to = NULL

\* C7 witness: an early attempt has just been reverted.
C7_Witness ==
    /\ last.op = "reverted"
    /\ inst[last.inst].provisional
    /\ inst[last.inst].running_on # NULL

\* C8: a managed instance is only ever assigned to a node the parent has a
\* view of, so the assertion of assign_instance never fails.
C8_ParentViewExists ==
    /\ ~assert_failed
    /\ \A i \in Instances :
          (inst[i].managed /\ inst[i].allocated_to # NULL) =>
              has_top_allowed_node(inst[i].allocated_to)

\* C8 witness: a managed instance is assigned while another of its allowed
\* nodes, of which the parent has no view, got banned.
C8_Witness ==
    \E i \in Instances : \E n \in DOMAIN inst[i].allowed_nodes :
        /\ inst[i].managed
        /\ inst[i].allocated_to \notin {NULL, n}
        /\ ~has_top_allowed_node(n)
        /\ inst[i].allowed_nodes[n] = -INFINITY


\* The instance actions that one call of pcmk__collective_action_flags looks
\* at: for instance k, the positions of its actions with the wanted name (for
\* a primitive and a given node, on that node)
C9_Matching(k) ==
    {p \in DOMAIN a_inst[k].actions :
        /\ a_inst[k].actions[p].task
              = orig_action_name(coll[summary.action])
        /\ \/ variant # "native"
           \/ summary.node = NULL
           \/ a_inst[k].actions[p].node = summary.node}

\* The flags of the first such action of every instance that has one
C9_Present ==
    {a_inst[k].actions[CHOOSE p \in C9_Matching(k) :
                          \A q \in C9_Matching(k) : p <= q].flags :
        k \in {j \in DOMAIN a_inst : C9_Matching(j) # {}}}

\* C9: the flags returned by pcmk__collective_action_flags have optional set
\* iff every instance with a matching action has it optional (set when no
\* instance has one), runnable set iff some matching instance action is
\* runnable (clear when there is none), and pseudo always set.
C9_FlagFold ==
    apc = "folded" =>
        /\ "optional" \in summary.flags
              <=> \A fl \in C9_Present : "optional" \in fl
        /\ "runnable" \in summary.flags
              <=> \E fl \in C9_Present : "runnable" \in fl
        /\ "pseudo" \in summary.flags

\* The spec's example: the start of a collective with one optional runnable
\* and one mandatory runnable instance start is mandatory and runnable.
C9_Witness ==
    /\ apc = "folded"
    /\ summary.action = "start"
    /\ C9_Present = {{"optional", "runnable"}, {"runnable"}}
    /\ summary.flags = {"runnable", "pseudo"}

\* The action lists of the primitives of the collective: its instances, or
\* the children of its instances when these are groups
C10_PrimitiveActions ==
    IF variant = "native"
    THEN {a_inst[k].actions : k \in DOMAIN a_inst}
    ELSE UNION {{a_inst[k].children[c].actions :
                    c \in DOMAIN a_inst[k].children} : k \in DOMAIN a_inst}

C10_Starts(actions) ==
    \E p \in DOMAIN actions :
        /\ actions[p].task = "start"
        /\ "optional" \notin actions[p].flags
        /\ "runnable" \in actions[p].flags

C10_Stops(actions) ==
    \E p \in DOMAIN actions :
        /\ actions[p].task = "stop"
        /\ "optional" \notin actions[p].flags
        /\ actions[p].flags \cap {"runnable", "pseudo"} # {}

\* C10: the folded state has the restarting bit only if one primitive has
\* both a mandatory runnable start and a mandatory stop that is runnable or
\* pseudo; when the loop is over and such starts and stops exist on
\* different primitives only, the state has starting and stopping but not
\* restarting.
C10_RestartingIsPerInstance ==
    /\ instance_restarting \in state
          => \E l \in C10_PrimitiveActions : C10_Starts(l) /\ C10_Stops(l)
    /\ ( /\ apc \in {"created", "folded"}
         /\ \E l \in C10_PrimitiveActions : C10_Starts(l)
         /\ \E l \in C10_PrimitiveActions : C10_Stops(l)
         /\ ~ \E l \in C10_PrimitiveActions : C10_Starts(l) /\ C10_Stops(l) )
          => /\ {instance_starting, instance_stopping} \subseteq state
             /\ instance_restarting \notin state

\* One primitive only starts and another only stops: starting and stopping
\* without restarting.
C10_Witness ==
    /\ apc = "created"
    /\ \E l \in C10_PrimitiveActions : C10_Starts(l) /\ ~C10_Stops(l)
    /\ \E l \in C10_PrimitiveActions : C10_Stops(l) /\ ~C10_Starts(l)
    /\ ~ \E l \in C10_PrimitiveActions : C10_Starts(l) /\ C10_Stops(l)
    /\ {instance_starting, instance_stopping} \subseteq state
    /\ instance_restarting \notin state

\* The last two words of a uuid are the given task and the interval 0
C11_EndsWith(uuid, task) ==
    /\ Len(uuid) >= 3
    /\ uuid[Len(uuid) - 1] = task
    /\ uuid[Len(uuid)] = "0"

\* The conditions of the claim, read off the two actions and their resources
C11_Expected ==
    /\ i_first.rsc # NULL
    /\ i_then.rsc # NULL
    /\ i_first.rsc # i_then.rsc
    /\ i_rsc[i_first.rsc].variant \in {"clone", "container"}
    /\ i_rsc[i_then.rsc].variant \in {"clone", "container"}
    /\ LET governing ==
              IF \/ C11_EndsWith(i_then.uuid, "stop")
                 \/ C11_EndsWith(i_then.uuid, "demote")
              THEN i_first.rsc ELSE i_then.rsc
       IN  i_rsc[governing].interleave = "true"

\* C11: can_interleave_actions(first, then) is true iff both actions have
\* resources, the resources differ, both are clones or bundles, and the
\* interleave meta-attribute is true on the governing resource (first's when
\* then's uuid ends with _stop_0 or _demote_0, then's otherwise): the update
\* takes the interleaved path exactly then.
C11_CanInterleave ==
    /\ ipc = "interleaved" => C11_Expected
    /\ ipc = "noninterleaved" => ~C11_Expected

\* A stop ordering interleaved on the strength of first's resource alone.
C11_Witness ==
    /\ ipc = "interleaved"
    /\ C11_EndsWith(i_then.uuid, "stop")
    /\ i_rsc[i_first.rsc].interleave = "true"
    /\ i_rsc[i_then.rsc].interleave # "true"

\* The node an instance is matched by: its original node when current is
\* set, its assigned node otherwise
C12_Node(instance) ==
    IF i_current THEN instance.running ELSE instance.assigned

\* C12: every ordering installed by the interleaved update links a first
\* instance and a then instance on the same node (whenever the then instance
\* has a node), no two installed orderings have the same then instance, and
\* so none links instances on different nodes.
C12_SameNodeOrderings ==
    /\ \A o \in i_orderings :
          LET first_instance == i_rsc[i_first.rsc].instances[o.first_inst]
              then_instance == i_rsc[i_then.rsc].instances[o.then_inst]
          IN  C12_Node(then_instance) # NULL
                 => C12_Node(first_instance) = C12_Node(then_instance)
    /\ \A o1, o2 \in i_orderings : o1.then_inst = o2.then_inst => o1 = o2

\* Start A then start B, instances of both on n1 and n2: one ordering per
\* node and no other.
C12_Witness ==
    /\ ipc = "done"
    /\ i_first.task = "start"
    /\ i_then.task = "start"
    /\ \E o1, o2 \in i_orderings :
          /\ i_orderings = {o1, o2}
          /\ o1.first_inst = 1 /\ o1.then_inst = 1
          /\ i_rsc["A"].instances[1].assigned = "n1"
          /\ i_rsc["B"].instances[1].assigned = "n1"
          /\ o2.first_inst = 2 /\ o2.then_inst = 2
          /\ i_rsc["A"].instances[2].assigned = "n2"
          /\ i_rsc["B"].instances[2].assigned = "n2"

\* The node a then instance or first instance is matched by, before the step
C13_Node(instance) ==
    IF i_current THEN instance.running ELSE instance.assigned

\* No instance of first's resource is compatible with the then instance the
\* loop is at: none is unblocked on the then instance's node or, when it has
\* no node, on one of its allowed nodes
C13_NoCompatibleFirst ==
    LET then_instance == i_rsc[i_then.rsc].instances[i_iter]
        nodes == IF C13_Node(then_instance) # NULL
                 THEN {C13_Node(then_instance)}
                 ELSE {then_instance.allowed[j] :
                          j \in DOMAIN then_instance.allowed}
    IN  \A f \in DOMAIN i_rsc[i_first.rsc].instances :
           LET first_instance == i_rsc[i_first.rsc].instances[f]
           IN  first_instance.blocked \/ C13_Node(first_instance) \notin nodes

\* C13: in the interleaved update, an iteration for a then instance without
\* a compatible first instance, with current false and a type that includes
\* runnable_left or implies_then, leaves that instance assigned to no node,
\* and adds updated_then to the result iff the unassignment reported a
\* change (it adds nothing else).
C13_UnassignedWithoutMatch ==
    [][ ( /\ ipc = "interleaved"
          /\ i_iter' = i_iter + 1
          /\ C13_NoCompatibleFirst
          /\ ~i_current
          /\ i_type \cap {"pe_order_runnable_left",
                          "pe_order_implies_then"} # {} )
        => /\ i_last'.op = "unassigned"
           /\ i_last'.then_inst = i_iter
           /\ i_rsc'[i_then.rsc].instances[i_iter].assigned = NULL
           /\ i_changed' = i_changed \cup (IF i_last'.reported
                                           THEN {"updated_then"} ELSE {})
           /\ i_orderings' = i_orderings ]_vars

\* A has no instance on n2 and the ordering is runnable_left: B's instance
\* on n2 has been unassigned, and the reported change is in the result.
C13_Witness ==
    /\ i_last.op = "unassigned"
    /\ i_last.then_inst = 2
    /\ i_last.reported
    /\ "pe_order_runnable_left" \in i_type
    /\ i_rsc["A"].instances[2].assigned # "n2"
    /\ i_rsc["B"].instances[2].assigned = NULL
    /\ "updated_then" \in i_changed

\* The case of C14 at the entry of the call that has just returned: every
\* instance healthy, provisional and running on a node of its own, as many
\* available nodes as instances, every score (of the parent and of each
\* instance, colocations included: there are none) equal and non-negative,
\* max_total the number of instances and max_per_node 1
C14_StickyCase ==
    /\ calls = 1
    /\ pc = "done"
    /\ max_total = MaxInst
    /\ max_per_node = 1
    /\ rsc_cons = <<>> /\ rsc_cons_lhs = <<>>
    /\ DOMAIN parent_nodes = Nodes
    /\ \A n \in Nodes : parent_nodes[n].weight = 0
    /\ Cardinality({n \in Nodes : node_status[n] = "online"}) = MaxInst
    /\ \A i \in Instances :
          /\ entry[i].provisional
          /\ ~inst[i].orphan /\ ~inst[i].failed /\ ~inst[i].allocating
          /\ inst[i].running_on # NULL
          /\ node_status[inst[i].running_on] = "online"
          /\ DOMAIN entry[i].allowed_nodes = Nodes
          /\ \A n \in Nodes : entry[i].allowed_nodes[n] = 0
    /\ \A i, j \in Instances :
          i # j => inst[i].running_on # inst[j].running_on

\* C14: in that case every instance is assigned to its current node, the
\* count of every node is 1, and as many instances as there are were
\* assigned.
C14_Stickiness ==
    C14_StickyCase =>
        /\ \A i \in Instances :
              ~inst[i].provisional /\ inst[i].allocated_to = inst[i].running_on
        /\ \A n \in Nodes : parent_nodes[n].count = 1
        /\ assigned = MaxInst

\* Two instances on n1 and n2 have stayed there.
C14_Witness ==
    /\ C14_StickyCase
    /\ inst[1].allocated_to = "n1"
    /\ inst[2].allocated_to = "n2"
    /\ assigned = 2

\* The nodes available to the collective
C15_Available ==
    {n \in DOMAIN parent_nodes : node_status[n] = "online"}

\* The case of C15 at the entry of the call that has just returned, for k
\* instances per node: max_total = k * (available nodes) instances, all
\* provisional and none an orphan, max_per_node = k, and equal non-negative
\* scores on the available nodes, for the parent and for every instance
\* (colocations included: there are none)
C15_SpillCase(k) ==
    /\ calls = 1
    /\ pc = "done"
    /\ C15_Available # {}
    /\ max_total = k * Cardinality(C15_Available)
    /\ max_total = MaxInst
    /\ max_per_node = k
    /\ rsc_cons = <<>> /\ rsc_cons_lhs = <<>>
    /\ \A n \in C15_Available : parent_nodes[n].weight = 0
    /\ \A i \in Instances :
          /\ entry[i].provisional
          /\ ~inst[i].orphan
          /\ C15_Available \subseteq DOMAIN entry[i].allowed_nodes
          /\ \E v \in {0, 1} :
                \A n \in C15_Available : entry[i].allowed_nodes[n] = v

\* All instances are assigned, k of them to every available node
C15_EvenlySpread(k) ==
    /\ \A i \in Instances : inst[i].allocated_to \in C15_Available
    /\ \A n \in C15_Available :
          /\ AssignedOn(n) = k
          /\ parent_nodes[n].count = k

\* C15 as stated: in that case every instance is assigned and every
\* available node ends with exactly k instances, whatever the instances'
\* current nodes (and other fields) are.
C15_SpilloverAlways ==
    \A k \in 1..MaxPerNode : C15_SpillCase(k) => C15_EvenlySpread(k)

\* C15, amended: the same, provided no instance has its allocating flag set
\* when the call starts.
C15_SpilloverUnlessAllocating ==
    \A k \in 1..MaxPerNode :
        (C15_SpillCase(k) /\ \A i \in Instances : ~inst[i].allocating)
            => C15_EvenlySpread(k)

\* Two instances, both running on n1, one available node short of none:
\* with two available nodes and k = 1 the second instance spilled to n2.
C15_Witness ==
    /\ C15_SpillCase(1)
    /\ \A i \in Instances : ~inst[i].allocating
    /\ inst[1].running_on = "n1" /\ inst[2].running_on = "n1"
    /\ inst[1].allocated_to = "n1" /\ inst[2].allocated_to = "n2"
    /\ C15_EvenlySpread(1)

\* The resource-level location the second loop gives instance i
C16_LimitLocation(i) ==
    [id |-> "collective_limit_reached", rsc |-> i, score |-> -INFINITY]

\* The second loop is at a provisional instance with the limit reached
C16_Overflow ==
    /\ pc = "pass2"
    /\ iter <= MaxInst
    /\ inst[iter].provisional
    /\ assigned >= max_total

\* What the second loop does to such an instance: the location is recorded,
\* every node of its table is at -INFINITY, and assign_instance did not run
\* (nothing is assigned or counted, and the step is the ban)
C16_Banned ==
    /\ C16_LimitLocation(iter) \in placement'
    /\ \A n \in DOMAIN inst'[iter].allowed_nodes :
          inst'[iter].allowed_nodes[n] = -INFINITY
    /\ DOMAIN inst'[iter].allowed_nodes = DOMAIN inst[iter].allowed_nodes
    /\ last' = [op |-> "limit", inst |-> iter]
    /\ inst'[iter].allocated_to = NULL
    /\ assigned' = assigned
    /\ parent_nodes' = parent_nodes

\* C16: in Pass 2 an instance that is still provisional when the number
\* assigned has reached max_total gets a -INFINITY location tagged
\* collective_limit_reached on all nodes, assign_instance is not called for
\* it, and it has no chosen node when pcmk__assign_instances returns.
C16_OverflowBanned ==
    /\ [][C16_Overflow => C16_Banned]_vars
    /\ [](\A i \in Instances :
            (pc = "done" /\ C16_LimitLocation(i) \in placement)
                => inst[i].allocated_to = NULL)

\* max_total = 1 with two instances: the first was assigned, the second
\* was banned by the limit, and the call has returned
C16_Witness ==
    /\ pc = "done"
    /\ calls = 1
    /\ max_total = 1
    /\ inst[1].allocated_to # NULL
    /\ C16_LimitLocation(2) \in placement
    /\ C16_LimitLocation(1) \notin placement
    /\ inst[2].provisional
    /\ DOMAIN inst[2].allowed_nodes = Nodes
    /\ \A n \in Nodes : inst[2].allowed_nodes[n] = -INFINITY

\* C17: a started call of pcmk__assign_instances always returns, and during
\* one call assign_instance is invoked at most once for any instance in
\* Pass 1 and at most once in Pass 2, so at most twice.
C17_TerminatesWithinTwoCalls ==
    /\ (pc \in {"pass1", "pass2"}) ~> (pc = "done")
    /\ [](\A i \in Instances :
            /\ invoked.pass1[i] <= 1
            /\ invoked.pass2[i] <= 1
            /\ invoked.pass1[i] + invoked.pass2[i] <= 2)

\* The call returned after invoking assign_instance for the first instance
\* in both passes: the early assignment was reverted, the final one worked
C17_Witness ==
    /\ pc = "done"
    /\ invoked.pass1[1] = 1
    /\ invoked.pass2[1] = 1
    /\ inst[1].allocated_to # NULL
    /\ inst[1].allocated_to # inst[1].running_on

\* This step calls assign_instance for the instance the running pass is at,
\* and that instance is provisional with its allocating flag set
C18_CalledInLoop ==
    /\ pc \in {"pass1", "pass2"}
    /\ iter <= MaxInst
    /\ invoked'[pc][iter] = invoked[pc][iter] + 1
    /\ inst[iter].provisional
    /\ inst[iter].allocating

\* The fields of an instance other than its colocation lists (which the
\* first loop extends before it calls assign_instance)
C18_Fields(r) == [r EXCEPT !.this_with = <<>>, !.with_this = <<>>]

\* The call returned false and changed nothing, and the pass went on
C18_NothingChanged ==
    /\ assigned' = assigned
    /\ \A i \in Instances : C18_Fields(inst'[i]) = C18_Fields(inst[i])
    /\ inst'[iter].allowed_nodes = inst[iter].allowed_nodes
    /\ inst'[iter].provisional
    /\ inst'[iter].allocated_to = NULL
    /\ parent_nodes' = parent_nodes
    /\ placement' = placement
    /\ pc' = pc
    /\ iter' = iter + 1

\* C18: assign_instance called for a provisional instance whose allocating
\* flag is set returns false and changes nothing: no score is banned, the
\* instance stays provisional, no parent count is incremented, and the
\* pass goes on to the next instance.
C18_LoopChangesNothing == [][C18_CalledInLoop => C18_NothingChanged]_vars

\* The final pass called assign_instance for the first instance, which is
\* allocating and was left as it was, and then assigned the second one
C18_Witness ==
    /\ pc = "done"
    /\ calls = 1
    /\ inst[1].allocating
    /\ invoked.pass2[1] = 1
    /\ inst[1].provisional
    /\ inst[1].allowed_nodes = entry[1].allowed_nodes
    /\ invoked.pass2[2] = 1
    /\ inst[2].allocated_to # NULL

\* This step is an early-preference call of assign_instance: the first loop
\* calls it for the instance it is at, with prefer = the instance's current
\* node
C19_EarlyCall ==
    /\ pc = "pass1"
    /\ iter <= MaxInst
    /\ invoked'.pass1[iter] = invoked.pass1[iter] + 1

\* The call returned true: the first loop counted the instance
C19_ReturnedTrue == assigned' = assigned + 1

\* The primitive's result was a node other than prefer, and was reverted
C19_Reverted == last' = [op |-> "reverted", inst |-> iter]

\* The snapshot: the table as the primitive found it, that is the table of
\* the instance with the scores of the nodes it cannot run on at -INFINITY
C19_Snapshot ==
    [n \in DOMAIN inst[iter].allowed_nodes |->
        IF can_run_instance(iter, n) THEN inst[iter].allowed_nodes[n]
        ELSE -INFINITY]

\* C19: an early-preference call returns true only if the node chosen is
\* prefer; when the primitive's result is a different node, allowed_nodes is
\* restored to the snapshot taken before the primitive ran, the instance is
\* unassigned and provisional again, no parent count is incremented, and
\* false is returned.
C19_EarlyPreferenceOrRollback ==
    [][C19_EarlyCall =>
         /\ C19_ReturnedTrue =>
               /\ inst'[iter].allocated_to = current_node(inst[iter])
               /\ ~inst'[iter].provisional
         /\ inst'[iter].allocated_to \in {NULL, current_node(inst[iter])}
         /\ C19_Reverted =>
               /\ inst'[iter].allowed_nodes = C19_Snapshot
               /\ inst'[iter].allocated_to = NULL
               /\ inst'[iter].provisional
               /\ parent_nodes' = parent_nodes
               /\ ~C19_ReturnedTrue]_vars

\* An early assignment of the first instance was reverted: it has
\* colocations, so the primitive was free to choose the other node and to
\* change the scores; the instance is provisional, with the table it had
C19_Witness ==
    /\ pc = "pass1"
    /\ calls = 1
    /\ last = [op |-> "reverted", inst |-> 1]
    /\ inst[1].this_with # <<>>
    /\ inst[1].provisional
    /\ inst[1].allocated_to = NULL
    /\ inst[1].allowed_nodes = entry[1].allowed_nodes
    /\ \A n \in Nodes : parent_nodes[n].count = 0

\* C20: in the interleaved update the flag current is true exactly when the
\* "then" action's uuid ends with _stopped_0 or _demoted_0.
C20_CurrentFromThen ==
    ipc = "interleaved" => (i_current <=> is_current_of_then(i_first, i_then))

\* The nodes of the collective's table that pass available(false, false)
C21_Available ==
    Cardinality({n \in DOMAIN parent_nodes : node_status[n] = "online"})

C21_Max(a, b) == IF a >= b THEN a ELSE b

\* C21 as stated: for every max_total (a number of instances, so not
\* negative) and every number of available nodes, a running call uses
\* optimal_per_node = max(1, floor(max_total / max(1, available))) and
\* all_coloc = (max_total < available).
C21_SetupValues ==
    pc \in {"pass1", "pass2"} =>
        /\ available_nodes = C21_Available
        /\ optimal_per_node =
              C21_Max(1, max_total \div C21_Max(1, C21_Available))
        /\ all_coloc = (max_total < C21_Available)

\* C21, amended: optimal_per_node = max(1, floor(max_total / available))
\* with at least one available node and 1 with none, and all_coloc =
\* (max_total < available).
C21_SetupValuesNoDivisionByNone ==
    pc \in {"pass1", "pass2"} =>
        /\ available_nodes = C21_Available
        /\ optimal_per_node =
              IF C21_Available = 0 THEN 1
              ELSE C21_Max(1, max_total \div C21_Available)
        /\ all_coloc = (max_total < C21_Available)

\* No node is available and max_total > 1: optimal_per_node is 1 and
\* all_coloc is false
C21_Witness ==
    /\ pc = "pass1"
    /\ max_total > 1
    /\ C21_Available = 0
    /\ optimal_per_node = 1
    /\ ~all_coloc

\* The five conditions of C22 for instance i and node n
C22_AllHold(i, n) ==
    /\ inst[i].orphan = FALSE
    /\ node_status[n] = "online"
    /\ n \in DOMAIN parent_nodes
    /\ (n \in DOMAIN parent_nodes => parent_nodes[n].weight >= 0)
    /\ (n \in DOMAIN parent_nodes => parent_nodes[n].count < max_per_node)

\* What can_run_instance reads, but for the counts (which line 195 changes)
C22_Read ==
    <<node_status, DOMAIN parent_nodes,
      [n \in DOMAIN parent_nodes |-> parent_nodes[n].weight],
      [i \in Instances |-> inst[i].orphan], max_per_node>>

\* C22: can_run_instance(instance, node, max_per_node) is true iff the
\* instance is not an orphan, the node passes available(false, false), the
\* parent's view of the node exists, its weight is >= 0 and its count is
\* < max_per_node; evaluating it in assign_instance changes no state.
C22_CanRunIff ==
    /\ [](\A i \in Instances : \A n \in Nodes :
            can_run_instance(i, n) <=> C22_AllHold(i, n))
    /\ [][C22_Read' = C22_Read]_vars

\* assign_instance filtered the second instance's nodes: it kept n2, where
\* all five conditions held, and banned n1, whose count had reached
\* max_per_node
C22_Witness ==
    /\ last = [op |-> "assigned", inst |-> 2]
    /\ pc = "pass2"
    /\ max_per_node = 1
    /\ inst[1].allocated_to = "n1"
    /\ inst[2].allocated_to = "n2"
    /\ entry[2].allowed_nodes = [n \in Nodes |-> 0]
    /\ inst[2].allowed_nodes["n1"] = -INFINITY
    /\ inst[2].allowed_nodes["n2"] = 0
    /\ ~can_run_instance(2, "n1")

\* The conditions of C23 for instance i
C23_Keeps(i) ==
    /\ inst[i].running_on # NULL
    /\ inst[i].provisional
    /\ ~inst[i].failed
    /\ node_status[inst[i].running_on] \in {"online", "standby"}
    /\ \/ inst[i].running_on \notin DOMAIN parent_nodes
       \/ parent_nodes[inst[i].running_on].count < optimal_per_node

\* C23: preferred_node returns the instance's current node iff the instance
\* is running somewhere, is provisional, is not failed, its current node
\* passes available(true, false), and the parent's view of that node does
\* not exist or has count < optimal_per_node; otherwise it returns null.
C23_PreferredNodeIff ==
    \A i \in Instances :
        preferred_node(i) = IF C23_Keeps(i) THEN inst[i].running_on ELSE NULL

\* The first loop found no preferred node for the failed first instance and
\* is at the second instance, whose current node is preferred
C23_Witness ==
    /\ pc = "pass1"
    /\ last = [op |-> "no_preferred", inst |-> 1]
    /\ inst[1].running_on # NULL
    /\ inst[1].failed
    /\ iter = 2
    /\ inst[2].running_on # NULL
    /\ preferred_node(2) = inst[2].running_on

\* Number of times constraint c occurs in the list l
C24_Count(l, c) == Cardinality({k \in DOMAIN l : l[k] = c})

\* What a list gained: new is old followed by the result
C24_Added(old, new) == SubSeq(new, Len(old) + 1, Len(new))

\* The list new is the list old followed by exactly the constraints of the
\* parent's list from that satisfy Kept(_), each as often as it is there
C24_Extended(old, new, from, Kept(_)) ==
    /\ Len(new) >= Len(old)
    /\ SubSeq(new, 1, Len(old)) = old
    /\ \A c \in ThisWithColocations \cup WithThisColocations :
          C24_Count(C24_Added(old, new), c) =
              IF Kept(c) THEN C24_Count(from, c) ELSE 0

\* The first loop is at an instance: it calls append_parent_colocation
C24_Appends ==
    /\ pc = "pass1"
    /\ iter <= MaxInst
    /\ assigned < max_total

C24_ThisWithKept(c) ==
    (max_total < available_nodes) \/ c.score < 0 \/ c.score = INFINITY

C24_WithThisKept(c) ==
    c.influence /\ ((max_total < available_nodes) \/ c.score < 0)

\* C24: append_parent_colocation(parent, child, all) adds to the child's
\* this-with list exactly the parent's dependent-side constraints with all,
\* score < 0 or score = +INFINITY, and to its with-this list exactly the
\* primary-side constraints that have influence on the child with all or
\* score < 0 (a +INFINITY one is not added when all is false).
C24_ParentColocationsAppended ==
    [][C24_Appends =>
         /\ C24_Extended(inst[iter].this_with, inst'[iter].this_with,
                         rsc_cons, C24_ThisWithKept)
         /\ C24_Extended(inst[iter].with_this, inst'[iter].with_this,
                         rsc_cons_lhs, C24_WithThisKept)]_vars

\* The parent has a +INFINITY primary-side constraint with influence, all
\* is false, and the first instance went through the first loop without
\* getting it
C24_Witness ==
    /\ pc = "pass1"
    /\ calls = 1
    /\ iter = 2
    /\ ~(max_total < available_nodes)
    /\ rsc_cons_lhs = <<[score |-> INFINITY, influence |-> TRUE]>>
    /\ inst[1].with_this = <<>>

\* The primitives of the collective: its instances, or the children of its
\* instances when these are groups
C25_Primitives ==
    IF variant = "native"
    THEN {a_inst[k] : k \in DOMAIN a_inst}
    ELSE UNION {{a_inst[k].children[c] : c \in DOMAIN a_inst[k].children} :
                   k \in DOMAIN a_inst}

\* A primitive is starting: it has a mandatory runnable start
C25_Starting(p) ==
    \E a \in DOMAIN p.actions :
        /\ p.actions[a].task = "start"
        /\ p.actions[a].flags \cap {"optional", "runnable"} = {"runnable"}

\* A primitive is stopping: it has a mandatory stop, runnable or pseudo
C25_Stopping(p) ==
    \E a \in DOMAIN p.actions :
        /\ p.actions[a].task = "stop"
        /\ "optional" \notin p.actions[a].flags
        /\ p.actions[a].flags \cap {"runnable", "pseudo"} # {}

\* C25: pcmk__create_instance_actions creates the collective's pseudo-actions
\* so that start and started are optional iff no instance is starting, stop
\* and stopped are optional iff no instance is stopping, started is runnable
\* iff some instance is active or starting, and stop has migrate_runnable
\* iff no instance is restarting (starting and stopping at once).
C25_CollectiveActionsFollowInstances ==
    apc = "created" =>
        LET starting == \E p \in C25_Primitives : C25_Starting(p)
            stopping == \E p \in C25_Primitives : C25_Stopping(p)
            active == \E p \in C25_Primitives : p.running
            restarting == \E p \in C25_Primitives :
                             C25_Starting(p) /\ C25_Stopping(p)
        IN  /\ "optional" \in coll["start"].flags <=> ~starting
            /\ "optional" \in coll["started"].flags <=> ~starting
            /\ "optional" \in coll["stop"].flags <=> ~stopping
            /\ "optional" \in coll["stopped"].flags <=> ~stopping
            /\ "runnable" \in coll["started"].flags <=> (active \/ starting)
            /\ "migrate_runnable" \in coll["stop"].flags <=> ~restarting

\* One instance restarts with a pseudo stop (its node is being fenced) and
\* nothing is active: all four actions are mandatory, started is runnable
\* and stop is without migrate_runnable
C25_Witness ==
    /\ apc = "created"
    /\ \E p \in C25_Primitives :
          /\ C25_Starting(p)
          /\ \E a \in DOMAIN p.actions :
                p.actions[a].task = "stop" /\ p.actions[a].flags = {"pseudo"}
    /\ \A p \in C25_Primitives : ~p.running
    /\ \A k \in {"start", "started", "stop", "stopped"} :
          "optional" \notin coll[k].flags
    /\ "runnable" \in coll["started"].flags
    /\ "migrate_runnable" \notin coll["stop"].flags

\* The step is the end of pcmk__create_instance_actions (lines 528-565)
C26_Finishes == apc = "create" /\ apc' = "created"

\* The two ends of a notify set that the model keeps
C26_Ends(set) == {set \o "_pre", set \o "_post_done"}

\* A set was built for an out-parameter by this step: the parameter now
\* points to a new set, whose actions now exist
C26_Built(before, after, set) ==
    /\ after = "built"
    /\ before # "built"
    /\ C26_Ends(set) \subseteq DOMAIN coll'

\* An out-parameter that is absent or already points to a set is left alone
C26_LeftAlone(before, after, set) ==
    /\ after = before
    /\ \A k \in C26_Ends(set) :
          IF k \in DOMAIN coll THEN k \in DOMAIN coll' /\ coll'[k] = coll[k]
          ELSE k \notin DOMAIN coll'

\* C26: pcmk__create_instance_actions builds a notify pseudo-op set only
\* for an out-parameter that is present and empty, and whenever both the
\* start and the stop set were built it installs the ordering of
\* stop_notify's post_done before start_notify's pre, of the optional kind.
C26_NotifySetsBuiltWhenEmpty ==
    [][C26_Finishes =>
         /\ notify.start # "empty"
               => C26_LeftAlone(notify.start, notify'.start, "start_notify")
         /\ notify.stop # "empty"
               => C26_LeftAlone(notify.stop, notify'.stop, "stop_notify")
         /\ notify'.start = "built" => notify.start = "empty"
         /\ notify'.stop = "built" => notify.stop = "empty"
         /\ ( /\ C26_Built(notify.start, notify'.start, "start_notify")
              /\ C26_Built(notify.stop, notify'.stop, "stop_notify") )
               => [first |-> "stop_notify_post_done",
                   then |-> "start_notify_pre",
                   type |-> "pe_order_optional"] \in orderings']_vars

\* Both out-parameters were present and empty: both sets were built and
\* the ordering between them is installed
C26_Witness ==
    /\ apc = "created"
    /\ notify.start = "built"
    /\ notify.stop = "built"
    /\ C26_Ends("start_notify") \cup C26_Ends("stop_notify")
          \subseteq DOMAIN coll
    /\ orderings = {[first |-> "stop_notify_post_done",
                     then |-> "start_notify_pre",
                     type |-> "pe_order_optional"]}

\* The step is a call of pcmk__collective_action_flags
C27_Folds == apc = "created" /\ apc' = "folded"

\* The positions of instance k's actions that a call for the collective
\* action key and the node looks at
C27_Matching(k, key, node) ==
    {p \in DOMAIN a_inst[k].actions :
        /\ a_inst[k].actions[p].task = orig_action_name(coll[key])
        /\ \/ variant # "native"
           \/ node = NULL
           \/ a_inst[k].actions[p].node = node}

\* Some instance's matching action (its first) is runnable
C27_AnyRunnable(key, node) ==
    \E k \in DOMAIN a_inst :
        /\ C27_Matching(k, key, node) # {}
        /\ "runnable" \in
              a_inst[k].actions[CHOOSE p \in C27_Matching(k, key, node) :
                  \A q \in C27_Matching(k, key, node) : p <= q].flags

\* C27: pcmk__collective_action_flags clears the runnable flag on the
\* collective action object iff no instance action is runnable and node is
\* null; with a non-null node the object's runnable flag is left unchanged
\* even when runnable is cleared in the returned flags.
C27_ObjectRunnableClearedGlobally ==
    [][C27_Folds =>
         LET key == summary'.action
             node == summary'.node
             cleared == /\ "runnable" \in coll[key].flags
                        /\ "runnable" \notin coll'[key].flags
         IN  /\ "runnable" \in coll[key].flags =>
                   (cleared <=> (~C27_AnyRunnable(key, node) /\ node = NULL))
             /\ "runnable" \notin coll[key].flags
                   => "runnable" \notin coll'[key].flags
             /\ node # NULL =>
                   /\ "runnable" \in coll'[key].flags
                         <=> "runnable" \in coll[key].flags
                   /\ ~C27_AnyRunnable(key, node)
                         => "runnable" \notin summary'.flags]_vars

\* A global call for the collective's start found no runnable instance
\* start and cleared runnable on the action itself
C27_Witness ==
    /\ apc = "folded"
    /\ summary.action = "start"
    /\ summary.node = NULL
    /\ "runnable" \notin summary.flags
    /\ "runnable" \notin coll["start"].flags

\* Some instance's matching action (its first) is mandatory
C28_AnyMandatory(key, node) ==
    \E k \in DOMAIN a_inst :
        /\ C27_Matching(k, key, node) # {}
        /\ "optional" \notin
              a_inst[k].actions[CHOOSE p \in C27_Matching(k, key, node) :
                  \A q \in C27_Matching(k, key, node) : p <= q].flags

\* The step is a call of pcmk__collective_action_flags with a node
C28_FoldsOnNode == apc = "created" /\ apc' = "folded" /\ summary'.node # NULL

\* C28 as stated: a call of pcmk__collective_action_flags with a non-null
\* node leaves every flag of the collective action object unchanged,
\* whatever the instance actions' flags are.
C28_NodeCallLeavesObject ==
    [][C28_FoldsOnNode =>
         coll'[summary'.action].flags = coll[summary'.action].flags]_vars

\* C28, amended: a call with a non-null node leaves every flag of the
\* collective action object unchanged but optional, which it clears iff
\* a matching instance action on that node is mandatory; the other actions
\* of the collective are untouched.
C28_NodeCallClearsOptionalOnly ==
    [][C28_FoldsOnNode =>
         LET key == summary'.action
         IN  /\ coll'[key].flags =
                   IF C28_AnyMandatory(key, summary'.node)
                   THEN coll[key].flags \ {"optional"}
                   ELSE coll[key].flags
             /\ DOMAIN coll' = DOMAIN coll
             /\ \A k \in DOMAIN coll \ {key} : coll'[k] = coll[k]
             /\ [coll'[key] EXCEPT !.flags = {}]
                   = [coll[key] EXCEPT !.flags = {}]]_vars

\* A call for the collective's optional start on node n1, where an instance
\* has a mandatory start that cannot run: nothing is runnable, the action
\* itself keeps runnable and loses optional
C28_Witness ==
    /\ apc = "folded"
    /\ summary.action = "start"
    /\ summary.node = "n1"
    /\ summary.flags = {"pseudo"}
    /\ coll["start"].flags = {"pseudo", "runnable"}

(* ---------------------------------------------------------------------- *)
\* C29 helpers: the call made, its subject, and the first instance of the
\* list, in list order, that matches on a node (0 if none)
C29_Called == ipc = "matched" /\ i_last.op = "find"

C29_Subject == i_rsc["A"].instances[1]

C29_MatchesOn(node) ==
    {p \in 1..Len(get_instance_list("B")) :
        instance_matches(get_instance_list("B")[p], node, i_last.role,
                         i_last.current)}

C29_FirstOn(node) ==
    IF C29_MatchesOn(node) = {} THEN 0
    ELSE CHOOSE p \in C29_MatchesOn(node) :
            \A q \in C29_MatchesOn(node) : p <= q

\* C29: pcmk__find_compatible_instance(match_rsc, rsc, role, current): when
\* match_rsc has a location L the result is the first instance of rsc, in
\* list order, that matches on L, and none when no instance matches on L,
\* whatever matches on other nodes; when match_rsc has no location the
\* result is the first matching instance of the first of match_rsc's sorted
\* allowed nodes that has one, and none iff no allowed node has a matching
\* instance; a result always matches the node it was found on.
C29_FindCompatibleInstance ==
    C29_Called =>
        LET L == location_of(C29_Subject, i_last.current)
            nodes == C29_Subject.allowed
            found == i_last.instance
        IN  IF L # NULL
            THEN /\ found = C29_FirstOn(L)
                 /\ found # 0 =>
                        instance_matches(get_instance_list("B")[found], L,
                                         i_last.role, i_last.current)
            ELSE /\ found = 0 <=>
                        \A j \in 1..Len(nodes) : C29_FirstOn(nodes[j]) = 0
                 /\ found # 0 =>
                        \E j \in 1..Len(nodes) :
                            /\ found = C29_FirstOn(nodes[j])
                            /\ \A h \in 1..(j - 1) : C29_FirstOn(nodes[h]) = 0
                            /\ instance_matches(get_instance_list("B")[found],
                                                nodes[j], i_last.role,
                                                i_last.current)

\* C29 witness: match_rsc has no location, and the instance found on its
\* first allowed node comes later in the list than an instance matching
\* its second allowed node
C29_Witness ==
    /\ C29_Called
    /\ location_of(C29_Subject, i_last.current) = NULL
    /\ Len(C29_Subject.allowed) = 2
    /\ i_last.instance = C29_FirstOn(C29_Subject.allowed[1])
    /\ C29_FirstOn(C29_Subject.allowed[2]) # 0
    /\ C29_FirstOn(C29_Subject.allowed[2]) < i_last.instance

\* C29 witness of the other case: match_rsc has a location where no
\* instance matches while an instance matches on another allowed node, and
\* the search finds none
C29_WitnessLocated ==
    /\ C29_Called
    /\ location_of(C29_Subject, i_last.current) # NULL
    /\ i_last.instance = 0
    /\ \E j \in 1..Len(C29_Subject.allowed) :
          C29_FirstOn(C29_Subject.allowed[j]) # 0

(* ---------------------------------------------------------------------- *)
\* C30 helpers: the call made and the instance it was made for
C30_Called == ipc = "matched" /\ i_last.op = "matches"

C30_Instance == get_instance_list("B")[i_last.instance]

C30_State ==
    IF i_last.current THEN C30_Instance.role ELSE C30_Instance.next_role

C30_Location ==
    IF i_last.current THEN C30_Instance.running ELSE C30_Instance.assigned

\* C30: pcmk__instance_matches(instance, node, role, current) is true iff
\* the role is unknown or equals the instance's state for current, the
\* instance is not blocked, its location for current is not null, and that
\* location is the node given; a blocked instance never matches.
C30_InstanceMatchesIff ==
    C30_Called =>
        /\ i_last.result <=>
              /\ i_last.role = "unknown" \/ i_last.role = C30_State
              /\ ~C30_Instance.blocked
              /\ C30_Location # NULL
              /\ C30_Location = i_last.node
        /\ C30_Instance.blocked => ~i_last.result

\* C30 witness: a match on a role and a node that only the side asked for
\* has, and a blocked instance refused that would match otherwise
C30_Witness ==
    /\ C30_Called
    /\ i_last.result
    /\ i_last.role # "unknown"
    /\ C30_Instance.role # C30_Instance.next_role
    /\ C30_Instance.running # C30_Instance.assigned

C30_WitnessBlocked ==
    /\ C30_Called
    /\ ~i_last.result
    /\ C30_Instance.blocked
    /\ i_last.role = C30_State
    /\ C30_Location = i_last.node

(* ---------------------------------------------------------------------- *)
\* C31 helpers: the positions of the actions of an instance that are
\* equivalent to then.task on node, whether the first of them is runnable,
\* and the calls made by one iteration
C31_Equivalent(instance) ==
    {p \in 1..Len(instance.actions) :
        /\ instance.actions[p].task = i_then.task
        /\ i_node = NULL \/ instance.actions[p].node = i_node}

C31_First(instance) ==
    CHOOSE p \in C31_Equivalent(instance) :
        \A q \in C31_Equivalent(instance) : p <= q

C31_HasRunnable(instance) ==
    /\ C31_Equivalent(instance) # {}
    /\ "runnable" \in instance.actions[C31_First(instance)].flags

C31_NewCalls == SubSeq(i_calls', Len(i_calls) + 1, Len(i_calls'))

C31_InstanceCall(fn, instance) ==
    [fn |-> fn, first_inst |-> 0, first_action |-> no_action,
     then_inst |-> i_iter,
     then_action |-> [inner |-> FALSE, pos |-> C31_First(instance)],
     flags |-> {}, new |-> FALSE]

\* C31: when interleaving does not apply and then has a resource, the update
\* first updates the ordering of the collective actions themselves and then
\* visits the then-side instances in order; for an instance with a runnable
\* action equivalent to then.task on node it calls the instance's
\* update_ordered_actions for that action, and re-evaluates the actions
\* after it iff that call reported updated_then; any other instance gets no
\* call, adds nothing to the result and is left as it was.
C31_NonInterleavedUpdate ==
    /\ [][ ( /\ ipc = "call"
             /\ i_then.rsc # NULL
             /\ ~can_interleave_actions(i_first, i_then) )
           => /\ ipc' = "noninterleaved"
              /\ Len(i_calls') = 1
              /\ i_calls'[1].fn = "pcmk__update_ordered_actions" ]_vars
    /\ [](ipc = "noninterleaved"
            => /\ i_calls[1].fn = "pcmk__update_ordered_actions"
               /\ \A j \in 2..Len(i_calls) :
                     i_calls[j].fn # "pcmk__update_ordered_actions")
    /\ [][ (ipc = "noninterleaved" /\ i_iter' = i_iter + 1)
           => LET instance == get_instance_list(i_then.rsc)[i_iter]
              IN  /\ SubSeq(i_calls', 1, Len(i_calls)) = i_calls
                  /\ i_rsc' = i_rsc
                  /\ IF C31_HasRunnable(instance)
                     THEN C31_NewCalls =
                            <<C31_InstanceCall("update_ordered_actions",
                                               instance)>>
                            \o (IF "updated_then" \in i_inner
                                THEN <<C31_InstanceCall(
                                         "pcmk__update_action_for_orderings",
                                         instance)>>
                                ELSE <<>>)
                     ELSE /\ C31_NewCalls = <<>>
                          /\ i_changed' = i_changed ]_vars

\* C31 witness: the first instance had no runnable equivalent action and was
\* passed over; the second was updated, the update reported updated_then
\* and the actions after its action were re-evaluated
C31_Witness ==
    /\ ipc = "noninterleaved"
    /\ i_last.op = "updated"
    /\ i_last.then_inst = 2
    /\ Len(i_calls) = 3
    /\ i_calls[2].fn = "update_ordered_actions"
    /\ i_calls[2].then_inst = 2
    /\ i_calls[3].fn = "pcmk__update_action_for_orderings"
    /\ "updated_then" \in i_changed

(* ---------------------------------------------------------------------- *)
\* C32 helpers: an iteration of the interleaved loop, the then instance it
\* is for, the first instance matched, the two actions looked up, the
\* ordering between them and the calls the iteration made
C32_Step == ipc = "interleaved" /\ i_iter' = i_iter + 1

C32_Then == get_instance_list(i_then.rsc)[i_iter]

C32_Match ==
    find_compatible_instance(C32_Then, i_first.rsc, "unknown", i_current)

C32_First == get_instance_list(i_first.rsc)[C32_Match]

C32_FirstAction ==
    find_instance_action(i_first, C32_First, orig_action_name(i_first),
                         i_node, TRUE)

C32_ThenAction ==
    find_instance_action(i_then, C32_Then, i_then.task, i_node, FALSE)

C32_Both == C32_FirstAction.pos # 0 /\ C32_ThenAction.pos # 0

C32_Ordering ==
    [first_inst |-> C32_Match, first_action |-> C32_FirstAction,
     then_inst |-> i_iter, then_action |-> C32_ThenAction, type |-> i_type]

C32_New == C32_Ordering \notin i_before \cup i_orderings

C32_NewCalls == SubSeq(i_calls', Len(i_calls) + 1, Len(i_calls'))

C32_Recursed ==
    \E j \in 1..Len(C32_NewCalls) :
        /\ C32_NewCalls[j].fn = "update_ordered_actions"
        /\ C32_NewCalls[j].then_inst = i_iter
        /\ C32_NewCalls[j].first_inst = C32_Match
        /\ C32_NewCalls[j].flags =
              (IF C32_FirstAction.inner
               THEN C32_First.inner[1][C32_FirstAction.pos].flags
               ELSE C32_First.actions[C32_FirstAction.pos].flags)

\* C32 as stated: for a then instance with a compatible first instance the
\* ordering is installed only if both actions exist, updated_first and
\* updated_then are marked only if the ordering is new, and the then
\* instance's update_ordered_actions is called, with the flags of the first
\* instance's action, for every matched then instance.
C32_RecursesForEveryMatch ==
    [][ (C32_Step /\ C32_Match # 0)
        => /\ i_orderings' # i_orderings => C32_Both
           /\ (i_changed' \ (i_changed \cup i_inner)) # {} => C32_New
           /\ C32_Recursed ]_vars

\* C32 (amended): for a then instance with a compatible first instance,
\* when both actions exist the ordering between them is installed,
\* updated_first and updated_then are marked iff it is new, and the then
\* instance's update_ordered_actions is called with the flags of the first
\* instance's action, whether the ordering is new or not; when either action
\* is missing nothing is installed, nothing is marked and no update is
\* called.
C32_RecursesWhenBothActionsExist ==
    [][ (C32_Step /\ C32_Match # 0)
        => /\ SubSeq(i_calls', 1, Len(i_calls)) = i_calls
           /\ i_rsc' = i_rsc
           /\ IF C32_Both
              THEN /\ i_orderings' = i_orderings \cup {C32_Ordering}
                   /\ i_changed' =
                         i_changed \cup i_inner
                         \cup (IF C32_New
                               THEN {"updated_first", "updated_then"}
                               ELSE {})
                   /\ Len(C32_NewCalls) = 2
                   /\ C32_NewCalls[1].fn = "order_actions"
                   /\ C32_NewCalls[1].new = C32_New
                   /\ C32_NewCalls[2].fn = "update_ordered_actions"
                   /\ C32_Recursed
              ELSE /\ i_orderings' = i_orderings
                   /\ i_changed' = i_changed
                   /\ C32_NewCalls = <<>> ]_vars

\* C32 witness: the ordering of the first pair was there before, so the
\* iteration marked nothing, and the update of the then instance was called
\* all the same
C32_Witness ==
    /\ ipc = "interleaved"
    /\ i_last.op = "ordered"
    /\ i_last.then_inst = 1
    /\ i_orderings \subseteq i_before
    /\ i_orderings # {}
    /\ i_changed = {}
    /\ Len(i_calls) = 2
    /\ ~i_calls[1].new
    /\ i_calls[2].fn = "update_ordered_actions"

\* C32 witness of the other case: a matched then instance was passed over
\* because an action was missing, without any call
C32_WitnessMissing ==
    /\ ipc = "interleaved"
    /\ i_last.op \in {"no_first_action", "no_then_action"}
    /\ i_last.first_inst # 0
    /\ i_calls = <<>>
    /\ i_orderings = {}

(* ---------------------------------------------------------------------- *)
\* C33 helpers: an iteration for a then instance without an interleave
\* match, and whether the type has one of the two mandatory kinds
C33_NoMatchStep ==
    /\ ipc = "interleaved"
    /\ i_iter' = i_iter + 1
    /\ find_compatible_instance(get_instance_list(i_then.rsc)[i_iter],
                                i_first.rsc, "unknown", i_current) = 0

C33_Mandatory ==
    "pe_order_runnable_left" \in i_type \/ "pe_order_implies_then" \in i_type

\* C33: a then instance without an interleave match is unassigned only if
\* current is false and the type includes runnable_left or implies_then;
\* when current is true, whatever the type, or when the type has neither
\* kind, unassign_if_mandatory returns false and changes nothing: the
\* instances, the result, the orderings and the calls stay as they were.
C33_UnassignOnlyIfMandatory ==
    /\ [][ (C33_NoMatchStep /\ i_rsc' # i_rsc)
           => (~i_current /\ C33_Mandatory) ]_vars
    /\ [][ (C33_NoMatchStep /\ (i_current \/ ~C33_Mandatory))
           => /\ i_rsc' = i_rsc
              /\ i_changed' = i_changed
              /\ i_orderings' = i_orderings
              /\ i_calls' = i_calls
              /\ ~i_last'.reported
              /\ i_last'.op = "no_match" ]_vars

\* C33 witness: current is true, the type is a mandatory one, and a then
\* instance without a match was left assigned
C33_Witness ==
    /\ ipc = "interleaved"
    /\ i_current
    /\ C33_Mandatory
    /\ i_last.op = "no_match"
    /\ get_instance_list(i_then.rsc)[i_last.then_inst].assigned # NULL
    /\ i_changed = {}

\* C33 witness of the other case: current is false and the type has
\* neither kind
C33_WitnessOptional ==
    /\ ipc = "interleaved"
    /\ ~i_current
    /\ ~C33_Mandatory
    /\ i_last.op = "no_match"
    /\ i_changed = {}

(* ---------------------------------------------------------------------- *)
\* C34 helper: an iteration that unassigns a then instance for lack of an
\* interleave match
C34_UnassignStep ==
    /\ ipc = "interleaved"
    /\ i_iter' = i_iter + 1
    /\ find_compatible_instance(get_instance_list(i_then.rsc)[i_iter],
                                i_first.rsc, "unknown", i_current) = 0
    /\ ~i_current
    /\ i_type \cap {"pe_order_runnable_left", "pe_order_implies_then"} # {}

\* C34: in the interleaved update, a then instance unassigned for lack of a
\* match adds at most updated_then to the result and never updated_first;
\* no ordering is installed and no update is called for that instance.
C34_UnassignedAddsOnlyUpdatedThen ==
    [][ C34_UnassignStep
        => /\ (i_changed' \ i_changed) \subseteq {"updated_then"}
           /\ i_changed \subseteq i_changed'
           /\ i_orderings' = i_orderings
           /\ i_calls' = i_calls
           /\ get_instance_list(i_then.rsc)'[i_iter].assigned = NULL ]_vars

\* C34 witness: a then instance was unassigned and the
\* unassignment reported a change; the result is updated_then alone, with
\* no ordering and no call for that instance
C34_Witness ==
    /\ ipc = "interleaved"
    /\ i_last.op = "unassigned"
    /\ i_last.reported
    /\ i_changed = {"updated_then"}
    /\ \A o \in i_orderings : o.then_inst # i_last.then_inst
    /\ \A j \in 1..Len(i_calls) : i_calls[j].then_inst # i_last.then_inst

(* ---------------------------------------------------------------------- *)
\* C35 helpers: the step that enters pcmk__assign_instances, and the number
\* of instances that the running call has assigned to a node so far
C35_Entered == pc # "pass1" /\ pc' = "pass1"

C35_AssignedInCall(n) ==
    Cardinality({i \in Instances :
                    entry[i].provisional /\ inst[i].allocated_to = n})

C35_PassesAgree ==
    /\ [](pc \in {"pass1", "pass2"}
            => \A n \in DOMAIN parent_nodes :
                  parent_nodes[n].count = C35_AssignedInCall(n))
    /\ [][ (pc = "pass1" /\ pc' = "pass2")
           => parent_nodes' = parent_nodes ]_vars

\* C35 as stated: Pass 1 sees the counts that the nodes held before the
\* call, and Pass 2 sees the counts as updated by Pass 1.
C35_Pass1SeesCountsBeforeCall ==
    /\ [][ C35_Entered
           => \A n \in DOMAIN parent_nodes :
                 parent_nodes'[n].count = parent_nodes[n].count ]_vars
    /\ [][ (pc = "pass1" /\ pc' = "pass2")
           => parent_nodes' = parent_nodes ]_vars

\* C35 (amended): the counts are zeroed before Pass 1 starts, whatever the
\* nodes held before the call; in both passes the count of a node is the
\* number of instances the call has assigned to it so far, and Pass 2
\* starts with the counts as Pass 1 left them.
C35_Pass1SeesZeroedCounts ==
    /\ [][ C35_Entered
           => \A n \in DOMAIN parent_nodes' : parent_nodes'[n].count = 0 ]_vars
    /\ C35_PassesAgree

\* C35 witness: a second call has just started on a node that holds an
\* instance counted by the first call, and Pass 1 finds its count at zero
C35_Witness ==
    /\ calls = 2
    /\ pc = "pass1"
    /\ iter = 1
    /\ \E n \in DOMAIN parent_nodes :
          AssignedOn(n) >= 1 /\ parent_nodes[n].count = 0

\* C35 witness of the second half: Pass 2 assigned an instance to the node
\* that Pass 1 had not filled
C35_WitnessPass2 ==
    /\ pc = "pass2"
    /\ last = [op |-> "assigned", inst |-> 2]
    /\ max_per_node = 1
    /\ inst[1].allocated_to = "n1"
    /\ inst[2].allocated_to = "n2"
    /\ parent_nodes["n1"].count = 1
    /\ parent_nodes["n2"].count = 1

(* ---------------------------------------------------------------------- *)
\* C36 helper: the instances that the running or returned call found
\* provisional and that now have node n
C36_AssignedByCall(n) ==
    {i \in Instances : entry[i].provisional /\ inst[i].allocated_to = n}

\* C36: pcmk__assign_instances assigns no instance to a node that fails
\* available(false, false), such as a standby node, and the parent's count
\* of such a node stays 0; in particular an instance whose early attempt was
\* made for a current node in standby does not end up on that node.
C36_NoneOnUnavailableNode ==
    pc \in {"pass1", "pass2", "done"}
        => \A n \in Nodes :
              ~node_available(n, FALSE)
                  => /\ C36_AssignedByCall(n) = {}
                     /\ n \in DOMAIN parent_nodes
                            => parent_nodes[n].count = 0

\* C36 witness: the first instance runs on n1, which is in standby and
\* otherwise fit (allowed, weight 0); the preferred-node rule accepted n1,
\* the early attempt was made, and the instance is not on n1, whose count
\* is 0
C36_Witness ==
    /\ pc \in {"pass2", "done"}
    /\ calls = 1
    /\ inst[1].running_on = "n1"
    /\ node_status["n1"] = "standby"
    /\ "n1" \in DOMAIN parent_nodes
    /\ parent_nodes["n1"].weight = 0
    /\ entry[1].provisional
    /\ entry[1].allowed_nodes["n1"] = 0
    /\ invoked["pass1"][1] = 1
    /\ inst[1].allocated_to # "n1"
    /\ parent_nodes["n1"].count = 0

(* ---------------------------------------------------------------------- *)
\* C37 helpers: the call made, the instance searched, whether the rule asks
\* for the containerized resource, and the first action of a list with the
\* name looked up, on a node if one is given
C37_Called == ipc = "found" /\ i_last.op = "find_action"

C37_Instance == get_instance_list("B")[1]

C37_InnerWanted ==
    \/ i_last.for_first /\ i_first.task \notin {"stop", "stopped"}
    \/ ~i_last.for_first /\ i_first.task \in {"promote", "promoted", "demote",
                                              "demoted"}

C37_Matching(actions, node) ==
    {p \in 1..Len(actions) :
        /\ actions[p].task = i_last.action_name
        /\ node = NULL \/ actions[p].node = node}

C37_FirstOf(actions, node) ==
    IF C37_Matching(actions, node) = {} THEN 0
    ELSE CHOOSE p \in C37_Matching(actions, node) :
            \A q \in C37_Matching(actions, node) : p <= q

\* C37: find_instance_action looks the action up on the containerized
\* resource, with no node, iff the instance has one and either for_first
\* holds and the task of the collective action is not stop or stopped, or
\* for_first does not hold and the task is promote, promoted, demote or
\* demoted; in every other case, and for every clone instance, it looks the
\* action up on the instance itself, on the caller's node.
C37_FindInstanceAction ==
    C37_Called =>
        /\ i_last.found.inner
              <=> (C37_InnerWanted /\ C37_Instance.inner # <<>>)
        /\ i_last.found.inner
              => i_last.found.pos = C37_FirstOf(C37_Instance.inner[1], NULL)
        /\ ~i_last.found.inner
              => i_last.found.pos = C37_FirstOf(C37_Instance.actions, i_node)
        /\ i_rsc["B"].variant = "clone" => ~i_last.found.inner

\* C37 witness: the action of the containerized resource of a bundle
\* container was found although the caller asked for a node
C37_Witness ==
    /\ C37_Called
    /\ i_last.found.inner
    /\ i_last.found.pos # 0
    /\ i_node # NULL
    /\ ~i_last.for_first

\* C37 witness of the other case: for a clone instance, with for_first and a
\* start, the instance's own actions were searched on the caller's node,
\* where it has none
C37_WitnessClone ==
    /\ C37_Called
    /\ i_rsc["B"].variant = "clone"
    /\ i_last.for_first
    /\ i_first.task = "start"
    /\ i_node = "n2"
    /\ i_last.found = [inner |-> FALSE, pos |-> 0]
    /\ C37_FirstOf(C37_Instance.actions, NULL) # 0

=============================================================================
